---------------------------- MODULE Spec2Model ----------------------------
(***************************************************************************)
(* The analysis page of the dashboard (the page under src/app/pages):      *)
(* the interpretation functions get_rsi_interpretation,                    *)
(* get_macd_interpretation, get_stoch_interpretation and                   *)
(* get_trend_interpretation; generate_trading_recommendation, which scores *)
(* the interpretation texts together with the news sentiment;              *)
(* analyze_news_sentiment; fetch_gateio_klines,                            *)
(* calculate_technical_indicators and calculate_fibonacci_levels; and the  *)
(* run of main that calls them.  The dashboard page (src/app/app.py):      *)
(* get_gateio_data and the runs of main_page with its refresh timer.       *)
(*                                                                         *)
(* Specifications.  Spec: single calls of the interpretation functions, of *)
(* generate_trading_recommendation and of analyze_news_sentiment.          *)
(* SpecTwoCalls: two calls of generate_trading_recommendation in a row.    *)
(* SpecFetch: calls of fetch_gateio_klines.  SpecFib: calls of             *)
(* calculate_fibonacci_levels.  SpecMain: runs of main on generated candle *)
(* series.  SpecDash: the runs of main_page in one session.  SpecTicker:   *)
(* the first page view of a session over all the ticker responses.         *)
(*                                                                         *)
(* Numbers.  The program computes in binary floating point.  The model     *)
(* computes with exact rationals [n |-> numerator, d |-> denominator > 0]  *)
(* kept in lowest terms, extended by the three special floats: inf is      *)
(* [n |-> 1, d |-> 0], -inf is [n |-> -1, d |-> 0] and NaN is              *)
(* [n |-> 0, d |-> 0].  Division by zero gives inf, -inf or NaN as numpy's *)
(* float64 division does; every comparison with NaN is false.              *)
(*                                                                         *)
(* Strings.  A Python string is a sequence of characters; each character   *)
(* is written as a TLA+ string token: a Cyrillic capital letter by its     *)
(* capital transliteration ("P", "ZH", "SHCH"), a small letter by the      *)
(* small one, a Latin letter X by "lat:X", an emoji by a name in           *)
(* parentheses.  Python's  kw in text  is the substring test StrIn.        *)
(***************************************************************************)
EXTENDS Integers, Sequences, FiniteSets, TLC

VARIABLES
    pc,              \* the position of the script: "idle" before a call or a run
    interp,          \* the last call of a get_*_interpretation function
    explanations,    \* argument of generate_trading_recommendation
    current_data,    \* argument of generate_trading_recommendation
    news_sentiment,  \* argument of generate_trading_recommendation
    recommendation,  \* the dict returned by generate_trading_recommendation
    previous,        \* history: the arguments and the result of the call before
    response,        \* the response of the exchange to the requests of the run
    historical_data, \* what fetch_gateio_klines returned: None or a DataFrame
    df,              \* the frame calculate_technical_indicators returned
    indicators,      \* the last row of the columns added to df
    fib_levels,      \* the mapping calculate_fibonacci_levels returned
    error,           \* the exception that ended the run of the script, "" if none
    news_items,      \* argument of analyze_news_sentiment
    \* app.py, the dashboard page
    last_update,     \* st.session_state.last_update
    crypto_data,     \* st.session_state.crypto_data
    klines,          \* st.session_state.historical_data
    auto_refresh,    \* the value of the auto-refresh checkbox
    button,          \* whether this run was started by a click on 'refresh now'
    now,             \* the clock, in seconds: what time.time() returns
    cleared,         \* whether this run has called st.cache_data.clear()
    chain,           \* history: the forced reruns (st.rerun) that led to this run
    shown            \* what this run has displayed for each symbol

vars ==
    <<pc, interp, explanations, current_data, news_sentiment, recommendation, previous,
      response, historical_data, df, indicators, fib_levels, error, news_items,
      last_update, crypto_data, klines, auto_refresh, button, now, cleared, chain, shown>>

-----------------------------------------------------------------------------
(* Bounds of the model *)

\* news lists of up to MaxNewsItems items: news_score = 100 * k / t, -t <= k <= t
MaxNewsItems == 10
\* MACD and signal line values range over -MaxMacd .. MaxMacd
MaxMacd == 2
\* close price and SMA(20) range over 1 .. MaxPrice
MaxPrice == 60
\* fetch_gateio_klines is called on lists of up to MaxRawRows rows
MaxRawRows == 3
\* whose timestamps range over 1 .. MaxTimestamp
MaxTimestamp == 3
\* calculate_fibonacci_levels is called on frames of up to MaxFibRows rows
MaxFibRows == 2
\* main is run on series of up to MaxRows candles
MaxRows == 21
MaxClock == 240
MaxChain == 3
MaxListed == 3

-----------------------------------------------------------------------------
(* Exact rational arithmetic standing for Python's float arithmetic *)

\* float('nan'), float('inf') and -float('inf')
NaN == [n |-> 0, d |-> 0]
Inf == [n |-> 1, d |-> 0]
NegInf == [n |-> -1, d |-> 0]
IsNaN(x) == x.n = 0 /\ x.d = 0

Abs(x) == IF x < 0 THEN -x ELSE x

RECURSIVE GCD(_, _)
GCD(a, b) == IF b = 0 THEN a ELSE GCD(b, a % b)

\* the rational n/d in lowest terms with a positive denominator; with d = 0
\* it is inf, -inf or NaN by the sign of n
Rat(n, d) ==
    IF d = 0
    THEN [n |-> IF n > 0 THEN 1 ELSE IF n < 0 THEN -1 ELSE 0, d |-> 0]
    ELSE LET g == GCD(Abs(n), Abs(d))
             s == IF d < 0 THEN -1 ELSE 1
         IN  [n |-> s * (n \div g), d |-> s * (d \div g)]

RatInt(i) == [n |-> i, d |-> 1]
\* inf + inf = inf, inf + (-inf) = NaN
RatAdd(x, y) ==
    IF x.d = 0 /\ y.d = 0
    THEN (IF x.n = y.n THEN x ELSE NaN)
    ELSE Rat(x.n * y.d + y.n * x.d, x.d * y.d)
RatNeg(x) == [n |-> -x.n, d |-> x.d]
RatSub(x, y) == RatAdd(x, RatNeg(y))
\* 0 * inf = NaN
RatMul(x, y) == Rat(x.n * y.n, x.d * y.d)
\* 1 / y: 1 / 0 = inf, 1 / inf = 0
RatInv(y) == Rat(y.d, y.n)
\* x / 0 = inf or -inf by the sign of x, 0 / 0 = NaN
RatDiv(x, y) == RatMul(x, RatInv(y))
RatLT(x, y) ==
    /\ ~IsNaN(x)
    /\ ~IsNaN(y)
    /\ IF x.d = 0 /\ y.d = 0 THEN x.n < y.n ELSE x.n * y.d < y.n * x.d
RatLE(x, y) ==
    /\ ~IsNaN(x)
    /\ ~IsNaN(y)
    /\ IF x.d = 0 /\ y.d = 0 THEN x.n <= y.n ELSE x.n * y.d <= y.n * x.d
RatGT(x, y) == RatLT(y, x)
RatGE(x, y) == RatLE(y, x)

-----------------------------------------------------------------------------
(* The strings returned by the interpretation functions, and the keywords  *)
(* generate_trading_recommendation searches them for                       *)

\* the string returned at line 431
RSI_STRONG_OVERBOUGHT ==
  <<
    "(cross)", " ", "S", "I", "L", "'", "N", "A", "YA", " ", "P", "E", "R", "E", "K", "U",
    "P", "L", "E", "N", "N", "O", "S", "T", "'", " ", "-", " ", "V", "y", "s", "o", "k",
    "a", "ya", " ", "v", "e", "r", "o", "ya", "t", "n", "o", "s", "t", "'", " ", "k", "o",
    "r", "r", "e", "k", "ts", "i", "i", " ", "v", "n", "i", "z", ".", " ", "TS", "e", "n",
    "a", " ", "z", "n", "a", "ch", "i", "t", "e", "l", "'", "n", "o", " ", "o", "t", "k",
    "l", "o", "n", "i", "l", "a", "s", "'", " ", "o", "t", " ", "s", "r", "e", "d", "n",
    "i", "kh", " ", "z", "n", "a", "ch", "e", "n", "i", "j", " ", "i", " ", "m", "o", "zh",
    "e", "t", " ", "s", "k", "o", "r", "o", " ", "r", "a", "z", "v", "e", "r", "n", "u",
    "t", "'", "s", "ya", "."
  >>

\* the string returned at line 433
RSI_OVERBOUGHT ==
  <<
    "(warning)", " ", "P", "E", "R", "E", "K", "U", "P", "L", "E", "N", "N", "O", "S", "T",
    "'", " ", "-", " ", "V", "o", "z", "m", "o", "zh", "n", "a", " ", "l", "o", "k", "a",
    "l", "'", "n", "a", "ya", " ", "k", "o", "r", "r", "e", "k", "ts", "i", "ya", ".", " ",
    "R", "y", "n", "o", "k", " ", "p", "e", "r", "e", "g", "r", "e", "t", ",", " ", "b",
    "u", "d", "'", "t", "e", " ", "o", "s", "t", "o", "r", "o", "zh", "n", "y", " ", "s",
    " ", "n", "o", "v", "y", "m", "i", " ", "p", "o", "k", "u", "p", "k", "a", "m", "i", "."
  >>

\* the string returned at line 435
RSI_STRONG_OVERSOLD ==
  <<
    "(check)", " ", "S", "I", "L", "'", "N", "A", "YA", " ", "P", "E", "R", "E", "P", "R",
    "O", "D", "A", "N", "N", "O", "S", "T", "'", " ", "-", " ", "V", "y", "s", "o", "k",
    "a", "ya", " ", "v", "e", "r", "o", "ya", "t", "n", "o", "s", "t", "'", " ", "o", "t",
    "s", "k", "o", "k", "a", " ", "v", "v", "e", "r", "kh", ".", " ", "A", "k", "t", "i",
    "v", " ", "n", "e", "d", "o", "o", "ts", "e", "n", "e", "n", ",", " ", "v", "o", "z",
    "m", "o", "zh", "e", "n", " ", "r", "a", "z", "v", "o", "r", "o", "t", "."
  >>

\* the string returned at line 437
RSI_OVERSOLD ==
  <<
    "(chart-up)", " ", "P", "E", "R", "E", "P", "R", "O", "D", "A", "N", "N", "O", "S", "T",
    "'", " ", "-", " ", "V", "o", "z", "m", "o", "zh", "e", "n", " ", "t", "e", "kh", "n",
    "i", "ch", "e", "s", "k", "i", "j", " ", "o", "t", "s", "k", "o", "k", ".", " ", "KH",
    "o", "r", "o", "sh", "a", "ya", " ", "t", "o", "ch", "k", "a", " ", "d", "l", "ya", " ",
    "r", "a", "s", "s", "m", "o", "t", "r", "e", "n", "i", "ya", " ", "p", "o", "k", "u",
    "p", "k", "i", "."
  >>

\* the string returned at line 439
RSI_NEUTRAL ==
  <<
    "(white)", " ", "N", "E", "J", "T", "R", "A", "L", "'", "N", "A", "YA", " ", "Z", "O",
    "N", "A", " ", "-", " ", "T", "r", "e", "n", "d", " ", "s", "o", "kh", "r", "a", "n",
    "ya", "e", "t", "s", "ya", ".", " ", "S", "l", "e", "d", "u", "j", "t", "e", " ", "t",
    "e", "k", "u", "shch", "e", "m", "u", " ", "n", "a", "p", "r", "a", "v", "l", "e", "n",
    "i", "yu", " ", "r", "y", "n", "k", "a", "."
  >>

\* the string returned at line 445
MACD_STRONG_BULLISH ==
  <<
    "(green)", " ", "S", "I", "L", "'", "N", "Y", "J", " ", "B", "Y", "CH", "I", "J", " ",
    "S", "I", "G", "N", "A", "L", " ", "-", " ", "lat:M", "lat:A", "lat:C", "lat:D", " ",
    "v", "y", "sh", "e", " ", "s", "i", "g", "n", "a", "l", "'", "n", "o", "j", " ", "l",
    "i", "n", "i", "i", " ", "i", " ", "v", "y", "sh", "e", " ", "n", "u", "l", "ya", ".",
    " ", "T", "r", "e", "n", "d", " ", "v", "o", "s", "kh", "o", "d", "ya", "shch", "i",
    "j", ",", " ", "lat:m", "lat:o", "lat:m", "lat:e", "lat:n", "lat:t", "lat:u", "lat:m",
    " ", "p", "o", "l", "o", "zh", "i", "t", "e", "l", "'", "n", "y", "j", "."
  >>

\* the string returned at line 447
MACD_BULLISH ==
  <<
    "(chart-up)", " ", "B", "Y", "CH", "I", "J", " ", "S", "I", "G", "N", "A", "L", " ",
    "-", " ", "lat:M", "lat:A", "lat:C", "lat:D", " ", "v", "y", "sh", "e", " ", "s", "i",
    "g", "n", "a", "l", "'", "n", "o", "j", " ", "l", "i", "n", "i", "i", ".", " ", "N",
    "a", "ch", "a", "l", "o", " ", "v", "o", "s", "kh", "o", "d", "ya", "shch", "e", "g",
    "o", " ", "d", "v", "i", "zh", "e", "n", "i", "ya", "."
  >>

\* the string returned at line 449
MACD_STRONG_BEARISH ==
  <<
    "(red)", " ", "S", "I", "L", "'", "N", "Y", "J", " ", "M", "E", "D", "V", "E", "ZH",
    "I", "J", " ", "S", "I", "G", "N", "A", "L", " ", "-", " ", "lat:M", "lat:A", "lat:C",
    "lat:D", " ", "n", "i", "zh", "e", " ", "s", "i", "g", "n", "a", "l", "'", "n", "o",
    "j", " ", "l", "i", "n", "i", "i", " ", "i", " ", "n", "i", "zh", "e", " ", "n", "u",
    "l", "ya", ".", " ", "T", "r", "e", "n", "d", " ", "n", "i", "s", "kh", "o", "d", "ya",
    "shch", "i", "j", ",", " ", "lat:m", "lat:o", "lat:m", "lat:e", "lat:n", "lat:t",
    "lat:u", "lat:m", " ", "o", "t", "r", "i", "ts", "a", "t", "e", "l", "'", "n", "y", "j",
    "."
  >>

\* the string returned at line 451
MACD_BEARISH ==
  <<
    "(chart-down)", " ", "M", "E", "D", "V", "E", "ZH", "I", "J", " ", "S", "I", "G", "N",
    "A", "L", " ", "-", " ", "lat:M", "lat:A", "lat:C", "lat:D", " ", "n", "i", "zh", "e",
    " ", "s", "i", "g", "n", "a", "l", "'", "n", "o", "j", " ", "l", "i", "n", "i", "i",
    ".", " ", "N", "a", "ch", "a", "l", "o", " ", "n", "i", "s", "kh", "o", "d", "ya",
    "shch", "e", "g", "o", " ", "d", "v", "i", "zh", "e", "n", "i", "ya", "."
  >>

\* the string returned at line 456
STOCH_STRONG_OVERBOUGHT ==
  <<
    "(cross)", " ", "S", "I", "L", "'", "N", "A", "YA", " ", "P", "E", "R", "E", "K", "U",
    "P", "L", "E", "N", "N", "O", "S", "T", "'", " ", "-", " ", "O", "b", "a", " ", "p",
    "o", "k", "a", "z", "a", "t", "e", "l", "ya", " ", "v", " ", "z", "o", "n", "e", " ",
    "p", "e", "r", "e", "k", "u", "p", "l", "e", "n", "n", "o", "s", "t", "i", ".", " ",
    "V", "y", "s", "o", "k", "i", "j", " ", "r", "i", "s", "k", " ", "r", "a", "z", "v",
    "o", "r", "o", "t", "a", " ", "v", "n", "i", "z", "."
  >>

\* the string returned at line 458
STOCH_OVERBOUGHT ==
  <<
    "(warning)", " ", "P", "E", "R", "E", "K", "U", "P", "L", "E", "N", "N", "O", "S", "T",
    "'", " ", "-", " ", "O", "d", "i", "n", " ", "i", "z", " ", "p", "o", "k", "a", "z",
    "a", "t", "e", "l", "e", "j", " ", "v", " ", "z", "o", "n", "e", " ", "p", "e", "r",
    "e", "k", "u", "p", "l", "e", "n", "n", "o", "s", "t", "i", ".", " ", "V", "o", "z",
    "m", "o", "zh", "n", "a", " ", "k", "o", "r", "r", "e", "k", "ts", "i", "ya", "."
  >>

\* the string returned at line 460
STOCH_STRONG_OVERSOLD ==
  <<
    "(check)", " ", "S", "I", "L", "'", "N", "A", "YA", " ", "P", "E", "R", "E", "P", "R",
    "O", "D", "A", "N", "N", "O", "S", "T", "'", " ", "-", " ", "O", "b", "a", " ", "p",
    "o", "k", "a", "z", "a", "t", "e", "l", "ya", " ", "v", " ", "z", "o", "n", "e", " ",
    "p", "e", "r", "e", "p", "r", "o", "d", "a", "n", "n", "o", "s", "t", "i", ".", " ",
    "V", "y", "s", "o", "k", "a", "ya", " ", "v", "e", "r", "o", "ya", "t", "n", "o", "s",
    "t", "'", " ", "o", "t", "s", "k", "o", "k", "a", " ", "v", "v", "e", "r", "kh", "."
  >>

\* the string returned at line 462
STOCH_OVERSOLD ==
  <<
    "(chart-up)", " ", "P", "E", "R", "E", "P", "R", "O", "D", "A", "N", "N", "O", "S", "T",
    "'", " ", "-", " ", "O", "d", "i", "n", " ", "i", "z", " ", "p", "o", "k", "a", "z",
    "a", "t", "e", "l", "e", "j", " ", "v", " ", "z", "o", "n", "e", " ", "p", "e", "r",
    "e", "p", "r", "o", "d", "a", "n", "n", "o", "s", "t", "i", ".", " ", "V", "o", "z",
    "m", "o", "zh", "e", "n", " ", "t", "e", "kh", "n", "i", "ch", "e", "s", "k", "i", "j",
    " ", "o", "t", "s", "k", "o", "k", "."
  >>

\* the string returned at line 464
STOCH_NEUTRAL ==
  <<
    "(white)", " ", "N", "E", "J", "T", "R", "A", "L", "'", "N", "A", "YA", " ", "Z", "O",
    "N", "A", " ", "-", " ", "T", "r", "e", "n", "d", " ", "s", "o", "kh", "r", "a", "n",
    "ya", "e", "t", "s", "ya", ".", " ", "S", "l", "e", "d", "u", "j", "t", "e", " ", "o",
    "s", "n", "o", "v", "n", "o", "m", "u", " ", "n", "a", "p", "r", "a", "v", "l", "e",
    "n", "i", "yu", "."
  >>

\* the string returned at line 470
TREND_STRONG_UP ==
  <<
    "(green)", " ", "S", "I", "L", "'", "N", "Y", "J", " ", "V", "O", "S", "KH", "O", "D",
    "YA", "SHCH", "I", "J", " ", "T", "R", "E", "N", "D", " ", "-", " ", "TS", "e", "n",
    "a", " ", "z", "n", "a", "ch", "i", "t", "e", "l", "'", "n", "o", " ", "v", "y", "sh",
    "e", " ", "s", "k", "o", "l", "'", "z", "ya", "shch", "e", "j", " ", "s", "r", "e", "d",
    "n", "e", "j", ".", " ", "T", "r", "e", "n", "d", " ", "u", "v", "e", "r", "e", "n",
    "n", "o", " ", "v", "o", "s", "kh", "o", "d", "ya", "shch", "i", "j", "."
  >>

\* the string returned at line 472
TREND_UP ==
  <<
    "(chart-up)", " ", "V", "O", "S", "KH", "O", "D", "YA", "SHCH", "I", "J", " ", "T", "R",
    "E", "N", "D", " ", "-", " ", "TS", "e", "n", "a", " ", "v", "y", "sh", "e", " ", "s",
    "k", "o", "l", "'", "z", "ya", "shch", "e", "j", " ", "s", "r", "e", "d", "n", "e", "j",
    ".", " ", "T", "r", "e", "n", "d", " ", "v", "o", "s", "kh", "o", "d", "ya", "shch",
    "i", "j", "."
  >>

\* the string returned at line 474
TREND_STRONG_DOWN ==
  <<
    "(red)", " ", "S", "I", "L", "'", "N", "Y", "J", " ", "N", "I", "S", "KH", "O", "D",
    "YA", "SHCH", "I", "J", " ", "T", "R", "E", "N", "D", " ", "-", " ", "TS", "e", "n",
    "a", " ", "z", "n", "a", "ch", "i", "t", "e", "l", "'", "n", "o", " ", "n", "i", "zh",
    "e", " ", "s", "k", "o", "l", "'", "z", "ya", "shch", "e", "j", " ", "s", "r", "e", "d",
    "n", "e", "j", ".", " ", "T", "r", "e", "n", "d", " ", "u", "v", "e", "r", "e", "n",
    "n", "o", " ", "n", "i", "s", "kh", "o", "d", "ya", "shch", "i", "j", "."
  >>

\* the string returned at line 476
TREND_DOWN ==
  <<
    "(chart-down)", " ", "N", "I", "S", "KH", "O", "D", "YA", "SHCH", "I", "J", " ", "T",
    "R", "E", "N", "D", " ", "-", " ", "TS", "e", "n", "a", " ", "n", "i", "zh", "e", " ",
    "s", "k", "o", "l", "'", "z", "ya", "shch", "e", "j", " ", "s", "r", "e", "d", "n", "e",
    "j", ".", " ", "T", "r", "e", "n", "d", " ", "n", "i", "s", "kh", "o", "d", "ya",
    "shch", "i", "j", "."
  >>

\* the string returned at line 478
TREND_SIDEWAYS ==
  <<
    "(white)", " ", "B", "O", "K", "O", "V", "O", "J", " ", "T", "R", "E", "N", "D", " ",
    "-", " ", "TS", "e", "n", "a", " ", "v", "b", "l", "i", "z", "i", " ", "s", "k", "o",
    "l", "'", "z", "ya", "shch", "e", "j", " ", "s", "r", "e", "d", "n", "e", "j", ".", " ",
    "R", "y", "n", "o", "k", " ", "v", " ", "k", "o", "n", "s", "o", "l", "i", "d", "a",
    "ts", "i", "i", "."
  >>

\* the keyword searched for at line 545
KW_PEREPRODANNOST == << "P", "E", "R", "E", "P", "R", "O", "D", "A", "N", "N", "O", "S", "T", "'" >>

\* the keyword searched for at line 548
KW_PEREKUPLENNOST == << "P", "E", "R", "E", "K", "U", "P", "L", "E", "N", "N", "O", "S", "T", "'" >>

\* the keyword searched for at line 558
KW_BYCHIJ == << "B", "Y", "CH", "I", "J" >>

\* the keyword searched for at line 561
KW_MEDVEZHIJ == << "M", "E", "D", "V", "E", "ZH", "I", "J" >>

\* the keyword searched for at line 582
KW_VOSKHODYASHCHIJ == << "V", "O", "S", "KH", "O", "D", "YA", "SHCH", "I", "J" >>

\* the keyword searched for at line 585
KW_NISKHODYASHCHIJ == << "N", "I", "S", "KH", "O", "D", "YA", "SHCH", "I", "J" >>
-----------------------------------------------------------------------------
(* Python's  kw in text  for strings: kw occurs in text as a substring *)

\* faulty variant: text.startswith(kw) after the leading emoji and space
StrIn_AtStart(kw, text) ==
    /\ Len(text) >= Len(kw) + 2
    /\ SubSeq(text, 3, Len(kw) + 2) = kw

StrIn(kw, text) ==
    \E i \in 1..(Len(text) - Len(kw) + 1) :
        /\ text[i] = kw[1]
        /\ SubSeq(text, i, i + Len(kw) - 1) = kw

-----------------------------------------------------------------------------
(* The interpretation layer *)

\* faulty variant: the thresholds 70 and 30 taken inclusively
get_rsi_interpretation_inclusive(rsi) ==
    IF RatGT(rsi, RatInt(80)) THEN RSI_STRONG_OVERBOUGHT
    ELSE IF RatGE(rsi, RatInt(70)) THEN RSI_OVERBOUGHT
    ELSE IF RatLT(rsi, RatInt(20)) THEN RSI_STRONG_OVERSOLD
    ELSE IF RatLE(rsi, RatInt(30)) THEN RSI_OVERSOLD
    ELSE RSI_NEUTRAL

get_rsi_interpretation(rsi) ==
    IF RatGT(rsi, RatInt(80)) THEN RSI_STRONG_OVERBOUGHT
    ELSE IF RatGT(rsi, RatInt(70)) THEN RSI_OVERBOUGHT
    ELSE IF RatLT(rsi, RatInt(20)) THEN RSI_STRONG_OVERSOLD
    ELSE IF RatLT(rsi, RatInt(30)) THEN RSI_OVERSOLD
    ELSE RSI_NEUTRAL

\* faulty variant: diff = 0 counted as bullish
get_macd_interpretation_zero_diff(macd, signal) ==
    LET diff == RatSub(macd, signal)
        zero == RatInt(0)
    IN  IF RatGE(diff, zero) /\ RatGT(macd, zero) THEN MACD_STRONG_BULLISH
        ELSE IF RatGE(diff, zero) THEN MACD_BULLISH
        ELSE IF RatLT(diff, zero) /\ RatLT(macd, zero) THEN MACD_STRONG_BEARISH
        ELSE MACD_BEARISH

get_macd_interpretation(macd, signal) ==
    LET diff == RatSub(macd, signal)
        zero == RatInt(0)
    IN  IF RatGT(diff, zero) /\ RatGT(macd, zero) THEN MACD_STRONG_BULLISH
        ELSE IF RatGT(diff, zero) THEN MACD_BULLISH
        ELSE IF RatLT(diff, zero) /\ RatLT(macd, zero) THEN MACD_STRONG_BEARISH
        ELSE MACD_BEARISH

\* faulty variant: the oversold tests are made before the overbought ones
get_stoch_interpretation_oversold_first(k, d) ==
    LET hi(x) == RatGT(x, RatInt(80))
        lo(x) == RatLT(x, RatInt(20))
    IN  IF lo(k) /\ lo(d) THEN STOCH_STRONG_OVERSOLD
        ELSE IF lo(k) \/ lo(d) THEN STOCH_OVERSOLD
        ELSE IF hi(k) /\ hi(d) THEN STOCH_STRONG_OVERBOUGHT
        ELSE IF hi(k) \/ hi(d) THEN STOCH_OVERBOUGHT
        ELSE STOCH_NEUTRAL

get_stoch_interpretation(k, d) ==
    LET hi(x) == RatGT(x, RatInt(80))
        lo(x) == RatLT(x, RatInt(20))
    IN  IF hi(k) /\ hi(d) THEN STOCH_STRONG_OVERBOUGHT
        ELSE IF hi(k) \/ hi(d) THEN STOCH_OVERBOUGHT
        ELSE IF lo(k) /\ lo(d) THEN STOCH_STRONG_OVERSOLD
        ELSE IF lo(k) \/ lo(d) THEN STOCH_OVERSOLD
        ELSE STOCH_NEUTRAL

\* deviation = ((price - sma_20) / sma_20) * 100
trend_deviation(price, sma_20) ==
    RatMul(RatDiv(RatSub(price, sma_20), sma_20), RatInt(100))

\* faulty variant: the thresholds taken inclusively
get_trend_interpretation_inclusive(price, sma_20) ==
    LET deviation == trend_deviation(price, sma_20)
    IN  IF RatGE(deviation, RatInt(5)) THEN TREND_STRONG_UP
        ELSE IF RatGE(deviation, RatInt(2)) THEN TREND_UP
        ELSE IF RatLE(deviation, RatInt(-5)) THEN TREND_STRONG_DOWN
        ELSE IF RatLE(deviation, RatInt(-2)) THEN TREND_DOWN
        ELSE TREND_SIDEWAYS

get_trend_interpretation(price, sma_20) ==
    LET deviation == trend_deviation(price, sma_20)
    IN  IF RatGT(deviation, RatInt(5)) THEN TREND_STRONG_UP
        ELSE IF RatGT(deviation, RatInt(2)) THEN TREND_UP
        ELSE IF RatLT(deviation, RatInt(-5)) THEN TREND_STRONG_DOWN
        ELSE IF RatLT(deviation, RatInt(-2)) THEN TREND_DOWN
        ELSE TREND_SIDEWAYS

-----------------------------------------------------------------------------
(* The scoring and recommendation engine *)

\* the five values of 'recommendation' (lines 613, 616, 619, 622, 625)
SIGNAL_K_POKUPKE == "(green) SIGNAL K POKUPKE"
UMERENNO_POLOZHITELNYJ == "(chart-up) UMERENNO-POLOZHITEL'NYJ"
NEJTRALNYJ == "(white) NEJTRAL'NYJ"
UMERENNO_OTRITSATELNYJ == "(chart-down) UMERENNO-OTRITSATEL'NYJ"
SIGNAL_K_PRODAZHE == "(red) SIGNAL K PRODAZHE"

\* explanations.get(key, {}) followed by  'interpretation' in info
HasInterpretation(expl, key) == key \in DOMAIN expl

\* faulty variant: the branch of the second keyword adds 0.5, as the else branch
IndicatorBlock_AdverseCountsHalf(st, expl, key, kwUp, kwDown, sigUp, sigDown, sigElse) ==
    IF ~HasInterpretation(expl, key) THEN st
    ELSE LET text == expl[key].interpretation
             st1 == [st EXCEPT !.max_score = @ + 1]
         IN  IF StrIn(kwUp, text)
             THEN [st1 EXCEPT !.score = RatAdd(@, RatInt(1)),
                              !.signals = Append(@, sigUp)]
             ELSE IF StrIn(kwDown, text)
             THEN [st1 EXCEPT !.score = RatAdd(@, Rat(1, 2)),
                              !.signals = Append(@, sigDown)]
             ELSE [st1 EXCEPT !.score = RatAdd(@, Rat(1, 2)),
                              !.signals = @ \o sigElse]

\* faulty variant: the else branch of a block adds 1.5 in place of 0.5
IndicatorBlock_NeutralAboveFavourable(st, expl, key, kwUp, kwDown, sigUp, sigDown, sigElse) ==
    IF ~HasInterpretation(expl, key) THEN st
    ELSE LET text == expl[key].interpretation
             st1 == [st EXCEPT !.max_score = @ + 1]
         IN  IF StrIn(kwUp, text)
             THEN [st1 EXCEPT !.score = RatAdd(@, RatInt(1)),
                              !.signals = Append(@, sigUp)]
             ELSE IF StrIn(kwDown, text)
             THEN [st1 EXCEPT !.signals = Append(@, sigDown)]
             ELSE [st1 EXCEPT !.score = RatAdd(@, Rat(3, 2)),
                              !.signals = @ \o sigElse]

\* One indicator's block (lines 541-552, 554-564, 566-576, 578-588): the state
\* st = [score, max_score, signals] after the block.  score is kept as a rational.
\* The MACD, Stochastic and trend blocks append no signal in their else branch.
IndicatorBlock(st, expl, key, kwUp, kwDown, sigUp, sigDown, sigElse) ==
    IF ~HasInterpretation(expl, key) THEN st
    ELSE LET text == expl[key].interpretation
             st1 == [st EXCEPT !.max_score = @ + 1]
         IN  IF StrIn(kwUp, text)
             THEN [st1 EXCEPT !.score = RatAdd(@, RatInt(1)),
                              !.signals = Append(@, sigUp)]
             ELSE IF StrIn(kwDown, text)
             THEN [st1 EXCEPT !.signals = Append(@, sigDown)]
             ELSE [st1 EXCEPT !.score = RatAdd(@, Rat(1, 2)),
                              !.signals = @ \o sigElse]

\* news_sentiment.get('news_score', 0)
NewsScoreOf(ns) == ns.news_score

\* The news block, lines 590-600
NewsBlock(st, news_score) ==
    LET st1 == [st EXCEPT !.max_score = @ + 1]
    IN  IF RatGT(news_score, RatInt(10))
        THEN [st1 EXCEPT !.score = RatAdd(@, RatInt(1)),
                         !.signals = Append(@, "(green) news")]
        ELSE IF RatLT(news_score, RatInt(-10))
        THEN [st1 EXCEPT !.signals = Append(@, "(red) news")]
        ELSE [st1 EXCEPT !.score = RatAdd(@, Rat(1, 2)),
                         !.signals = Append(@, "(white) news")]

\* faulty variant: line 609 left out
TotalScore_Uncorrected(st, news_score) ==
    IF st.max_score > 0
    THEN RatMul(RatDiv(st.score, RatInt(st.max_score)), RatInt(100))
    ELSE RatInt(50)

\* lines 602-609: the overall score and its correction by the news
TotalScore(st, news_score) ==
    LET base == IF st.max_score > 0
                THEN RatMul(RatDiv(st.score, RatInt(st.max_score)), RatInt(100))
                ELSE RatInt(50)
    IN  RatAdd(RatMul(base, Rat(8, 10)), RatMul(news_score, Rat(2, 10)))

\* faulty variant: the comparisons of lines 612-621 made strict
Label_Strict(total_score) ==
    IF RatGT(total_score, RatInt(70)) THEN SIGNAL_K_POKUPKE
    ELSE IF RatGT(total_score, RatInt(55)) THEN UMERENNO_POLOZHITELNYJ
    ELSE IF RatGT(total_score, RatInt(45)) THEN NEJTRALNYJ
    ELSE IF RatGT(total_score, RatInt(30)) THEN UMERENNO_OTRITSATELNYJ
    ELSE SIGNAL_K_PRODAZHE

\* lines 611-626: the label
Label(total_score) ==
    IF RatGE(total_score, RatInt(70)) THEN SIGNAL_K_POKUPKE
    ELSE IF RatGE(total_score, RatInt(55)) THEN UMERENNO_POLOZHITELNYJ
    ELSE IF RatGE(total_score, RatInt(45)) THEN NEJTRALNYJ
    ELSE IF RatGE(total_score, RatInt(30)) THEN UMERENNO_OTRITSATELNYJ
    ELSE SIGNAL_K_PRODAZHE

\* lines 611-626: the reasoning that goes with the label
Reasoning(total_score) ==
    IF RatGE(total_score, RatInt(70)) THEN "most indicators positive"
    ELSE IF RatGE(total_score, RatInt(55)) THEN "positive signals prevail"
    ELSE IF RatGE(total_score, RatInt(45)) THEN "signals contradict"
    ELSE IF RatGE(total_score, RatInt(30)) THEN "negative signals prevail"
    ELSE "most indicators negative"

\* lines 628-632: the sentence appended to the reasoning
NewsReasoning(news_score) ==
    IF RatGT(news_score, RatInt(20)) THEN "news strengthens bullish signals"
    ELSE IF RatLT(news_score, RatInt(-20)) THEN "news strengthens bearish signals"
    ELSE ""

generate_trading_recommendation(expl, cd, ns) ==
    LET st0 == [score |-> RatInt(0), max_score |-> 0, signals |-> << >>]
        st1 == IndicatorBlock(st0, expl, "rsi", KW_PEREPRODANNOST, KW_PEREKUPLENNOST,
                              "(green) RSI", "(red) RSI", <<"(white) RSI">>)
        st2 == IndicatorBlock(st1, expl, "macd", KW_BYCHIJ, KW_MEDVEZHIJ,
                              "(green) MACD", "(red) MACD", << >>)
        st3 == IndicatorBlock(st2, expl, "stochastic", KW_PEREPRODANNOST,
                              KW_PEREKUPLENNOST,
                              "(green) Stochastic", "(red) Stochastic", << >>)
        st4 == IndicatorBlock(st3, expl, "trend", KW_VOSKHODYASHCHIJ,
                              KW_NISKHODYASHCHIJ,
                              "(green) trend", "(red) trend", << >>)
        news_score == NewsScoreOf(ns)
        st5 == NewsBlock(st4, news_score)
        total_score == TotalScore(st5, news_score)
    IN  [recommendation |-> Label(total_score),
         score |-> total_score,
         signals |-> st5.signals,
         reasoning |-> <<Reasoning(total_score), NewsReasoning(news_score)>>]

-----------------------------------------------------------------------------
(* fetch_gateio_klines (the page and app.py carry the same function body). *)
(* The response of the exchange is a status code and a JSON value; a       *)
(* candlestick row is a list of eight fields, of which the first six are   *)
(* kept: timestamp, volume, close, high, low, open.  The timestamp is      *)
(* written as its epoch seconds, a price field as a string of characters.  *)

\* df.columns of the frame fetch_gateio_klines builds
columns == {"timestamp", "volume", "close", "high", "low", "open"}

\* Python's None and a DataFrame, as values of one shape; a frame is an object
\* that carries its rows and the names of its columns
None == [is_none |-> TRUE, rows |-> << >>, columns |-> {}]
DataFrame(rows) == [is_none |-> FALSE, rows |-> rows, columns |-> columns]

DigitChars == << "0", "1", "2", "3", "4", "5", "6", "7", "8", "9" >>
IsDigit(c) == \E i \in 1..Len(DigitChars) : DigitChars[i] = c
DigitValue(c) == (CHOOSE i \in 1..Len(DigitChars) : DigitChars[i] = c) - 1

\* the decimal numeral of a natural number, as the exchange writes it
RECURSIVE Decimal(_)
Decimal(i) ==
    IF i < 10 THEN << DigitChars[i + 1] >>
    ELSE Append(Decimal(i \div 10), DigitChars[(i % 10) + 1])

\* the value of a string of digits read as a numeral, acc being the value so far
RECURSIVE DigitsValue(_, _)
DigitsValue(str, acc) ==
    IF str = << >> THEN acc
    ELSE DigitsValue(Tail(str), 10 * acc + DigitValue(Head(str)))

RECURSIVE PowerOfTen(_)
PowerOfTen(k) == IF k = 0 THEN 1 ELSE 10 * PowerOfTen(k - 1)

\* the parse of one field by pd.to_numeric: an optional sign, digits, at most
\* one decimal point and at least one digit make a number; the parse of any
\* other string raises ValueError
ParseNumber(str) ==
    LET neg == Len(str) > 0 /\ str[1] = "-"
        body == IF neg THEN Tail(str) ELSE str
        dots == {i \in 1..Len(body) : body[i] = "."}
        ok == /\ Cardinality(dots) <= 1
              /\ \A i \in (1..Len(body)) \ dots : IsDigit(body[i])
              /\ Len(body) > Cardinality(dots)
        dot == IF dots = {} THEN Len(body) + 1 ELSE CHOOSE i \in dots : TRUE
        whole == DigitsValue(SubSeq(body, 1, dot - 1), 0)
        frac == SubSeq(body, dot + 1, Len(body))
        value == RatAdd(RatInt(whole), Rat(DigitsValue(frac, 0), PowerOfTen(Len(frac))))
    IN  IF ok
        THEN [raised |-> FALSE, value |-> IF neg THEN RatNeg(value) ELSE value]
        ELSE [raised |-> TRUE, value |-> NaN]

\* faulty variant: pd.to_numeric(errors='coerce'), a bad field becomes NaN
to_numeric_coerce(column) ==
    [raised |-> FALSE,
     values |-> [i \in 1..Len(column) |-> ParseNumber(column[i]).value]]

\* pd.to_numeric(column): every field parsed, or ValueError at the first bad one
to_numeric(column) ==
    [raised |-> \E i \in 1..Len(column) : ParseNumber(column[i]).raised,
     values |-> [i \in 1..Len(column) |-> ParseNumber(column[i]).value]]

\* df = pd.DataFrame(data).iloc[:, :6] with the six column names
NamedColumns(data) ==
    [i \in 1..Len(data) |->
        [timestamp |-> data[i][1], volume |-> data[i][2], close |-> data[i][3],
         high |-> data[i][4], low |-> data[i][5], open |-> data[i][6]]]

numeric_cols == << "open", "high", "low", "close", "volume" >>

\* the column col of the frame
Column(rows, col) == [i \in 1..Len(rows) |-> rows[i][col]]

\* for col in numeric_cols: df[col] = pd.to_numeric(df[col]), from column number k on
RECURSIVE ConvertColumns(_, _)
ConvertColumns(rows, k) ==
    IF k > Len(numeric_cols) THEN [raised |-> FALSE, rows |-> rows]
    ELSE LET col == numeric_cols[k]
             conv == to_numeric(Column(rows, col))
         IN  IF conv.raised THEN [raised |-> TRUE, rows |-> rows]
             ELSE ConvertColumns(
                      [i \in 1..Len(rows) |-> [rows[i] EXCEPT ![col] = conv.values[i]]],
                      k + 1)

\* row inserted into a frame sorted by timestamp, after the rows not later than it
RECURSIVE InsertByTimestamp(_, _)
InsertByTimestamp(sorted, row) ==
    IF sorted = << >> THEN << row >>
    ELSE IF sorted[Len(sorted)].timestamp <= row.timestamp THEN Append(sorted, row)
    ELSE Append(InsertByTimestamp(SubSeq(sorted, 1, Len(sorted) - 1), row),
                sorted[Len(sorted)])

\* df.sort_values('timestamp'): ascending, every row kept
RECURSIVE sort_values(_)
sort_values(rows) ==
    IF rows = << >> THEN << >>
    ELSE InsertByTimestamp(sort_values(SubSeq(rows, 1, Len(rows) - 1)), rows[Len(rows)])

\* pd.to_datetime(df['timestamp'], unit='s'): a Timestamp is written as its
\* epoch seconds
to_datetime(seconds) == seconds

\* the function; an exception inside the try block is caught and None returned
fetch_gateio_klines(resp) ==
    IF resp.raises THEN None
    ELSE IF resp.status_code # 200 THEN None
    ELSE IF ~(resp.json.is_list /\ Len(resp.json.items) > 0) THEN None
    ELSE LET conv == ConvertColumns(NamedColumns(resp.json.items), 1)
             dated == [i \in 1..Len(conv.rows) |->
                         [conv.rows[i] EXCEPT !.timestamp = to_datetime(@)]]
         IN  IF conv.raised THEN None ELSE DataFrame(sort_values(dated))

-----------------------------------------------------------------------------
(* calculate_fibonacci_levels.  The mapping it returns is written as the   *)
(* sequence of its items in insertion order; {} is the empty sequence.     *)

\* the empty mapping {}
NoLevels == << >>

\* df[col].max() and df[col].min() of a frame with at least one row
ColumnMax(rows, col) ==
    CHOOSE x \in {rows[i][col] : i \in 1..Len(rows)} :
        \A i \in 1..Len(rows) : RatLE(rows[i][col], x)
ColumnMin(rows, col) ==
    CHOOSE x \in {rows[i][col] : i \in 1..Len(rows)} :
        \A i \in 1..Len(rows) : RatLE(x, rows[i][col])

\* the float literals 0.236, 0.382, 0.5, 0.618 and 0.786 as exact decimals
Thousandths(k) == Rat(k, 1000)

\* faulty variant: the levels counted upwards from the low
calculate_fibonacci_levels_from_low(frame) ==
    IF frame.is_none \/ Len(frame.rows) = 0 THEN NoLevels
    ELSE LET high == ColumnMax(frame.rows, "high")
             low == ColumnMin(frame.rows, "low")
             diff == RatSub(high, low)
             level(k) == RatAdd(low, RatMul(Thousandths(k), diff))
         IN  IF RatLE(high, low) THEN NoLevels
             ELSE << [level |-> "0.0", price |-> high],
                     [level |-> "0.236", price |-> level(236)],
                     [level |-> "0.382", price |-> level(382)],
                     [level |-> "0.5", price |-> level(500)],
                     [level |-> "0.618", price |-> level(618)],
                     [level |-> "0.786", price |-> level(786)],
                     [level |-> "1.0", price |-> low] >>

\* faulty variant: high < low tested in place of high <= low
calculate_fibonacci_levels_strict(frame) ==
    IF frame.is_none \/ Len(frame.rows) = 0 THEN NoLevels
    ELSE LET high == ColumnMax(frame.rows, "high")
             low == ColumnMin(frame.rows, "low")
             diff == RatSub(high, low)
             level(k) == RatSub(high, RatMul(Thousandths(k), diff))
         IN  IF RatLT(high, low) THEN NoLevels
             ELSE << [level |-> "0.0", price |-> high],
                     [level |-> "0.236", price |-> level(236)],
                     [level |-> "0.382", price |-> level(382)],
                     [level |-> "0.5", price |-> level(500)],
                     [level |-> "0.618", price |-> level(618)],
                     [level |-> "0.786", price |-> level(786)],
                     [level |-> "1.0", price |-> low] >>

calculate_fibonacci_levels(frame) ==
    IF frame.is_none \/ Len(frame.rows) = 0 THEN NoLevels
    ELSE LET high == ColumnMax(frame.rows, "high")
             low == ColumnMin(frame.rows, "low")
             diff == RatSub(high, low)
             level(k) == RatSub(high, RatMul(Thousandths(k), diff))
         IN  IF RatLE(high, low) THEN NoLevels
             ELSE << [level |-> "0.0", price |-> high],
                     [level |-> "0.236", price |-> level(236)],
                     [level |-> "0.382", price |-> level(382)],
                     [level |-> "0.5", price |-> level(500)],
                     [level |-> "0.618", price |-> level(618)],
                     [level |-> "0.786", price |-> level(786)],
                     [level |-> "1.0", price |-> low] >>

-----------------------------------------------------------------------------
(* Inputs *)

Indicators == {"rsi", "macd", "stochastic", "trend"}

\* RSI and the Stochastic lines are percentages
RsiValues == 0..100
StochValues == {0, 10, 19, 20, 21, 50, 79, 80, 81, 90, 100}
MacdValues == (-MaxMacd)..MaxMacd
PriceValues == 1..MaxPrice

\* the floats an indicator column can hold: the values above, and NaN
Floats(values) == {RatInt(v) : v \in values} \cup {NaN}

RsiTexts == {get_rsi_interpretation(RatInt(r)) : r \in RsiValues}
MacdTexts ==
    {get_macd_interpretation(RatInt(m), RatInt(s)) : m \in MacdValues, s \in MacdValues}
StochTexts ==
    {get_stoch_interpretation(RatInt(k), RatInt(d)) : k \in StochValues, d \in StochValues}
TrendTexts ==
    {get_trend_interpretation(RatInt(p), RatInt(s)) : p \in PriceValues, s \in PriceValues}

\* no entry for an indicator
NoText == << >>

\* the explanations dict with the entries whose text is given; only the
\* 'interpretation' key of an entry is read by generate_trading_recommendation
Explanations(r, m, s, t) ==
    LET text == [i \in Indicators |->
                    CASE i = "rsi" -> r
                      [] i = "macd" -> m
                      [] i = "stochastic" -> s
                      [] OTHER -> t]
    IN  [i \in {j \in Indicators : text[j] # NoText} |-> [interpretation |-> text[i]]]

\* the news_score values analyze_news_sentiment computes for lists of up to
\* MaxNewsItems items: (positive - negative) / total * 100, and 0 for no items
NewsScores ==
    UNION {{RatMul(RatDiv(RatInt(k), RatInt(t)), RatInt(100)) : k \in (-t)..t} :
              t \in 1..MaxNewsItems}

\* the news_score of a list of one item: -100, 0 or 100
NewsScoresOfOneItem ==
    {RatMul(RatDiv(RatInt(k), RatInt(1)), RatInt(100)) : k \in {-1, 0, 1}}

\* the ticker snapshot; generate_trading_recommendation never reads it
CurrentData == {[available |-> TRUE, last |-> p] : p \in {1, MaxPrice}}

-----------------------------------------------------------------------------
(* The values of the variables before any call *)

NoInterp == [fn |-> "none", a |-> RatInt(0), b |-> RatInt(0), text |-> << >>]
NoExplanations == Explanations(NoText, NoText, NoText, NoText)
NoCurrentData == [available |-> TRUE, last |-> 1]
NoNews == [news_score |-> RatInt(0)]
NoRecommendation ==
    [recommendation |-> "", score |-> RatInt(0), signals |-> << >>, reasoning |-> << >>]
\* no request made yet
NoResponse == [raises |-> FALSE, status_code |-> 0, json |-> [is_list |-> FALSE, items |-> << >>]]
\* an empty list of news items
NoNewsItems == << >>
\* an empty dict of the session state (lines 19-22), nothing displayed
NoRecords == << >>
\* the clock when the session starts; time.time() is far above RefreshPeriod,
\* here it is just above it
FirstClock == 61
NoPrevious ==
    [explanations |-> NoExplanations, current_data |-> NoCurrentData,
     news_sentiment |-> NoNews, recommendation |-> NoRecommendation]

-----------------------------------------------------------------------------
(* calculate_technical_indicators: the values of the last row of the       *)
(* columns generate_indicator_explanations reads.  The exponentially       *)
(* weighted means behind the MACD columns are not computed here (their     *)
(* exact values do not fit the integers of the model): the MACD and signal *)
(* values of the last row are arguments.                                   *)

\* the fewest rows indicators are computed for, and the rolling windows
MinRows == 20
RsiWindow == 14
SmaWindow == 20
StochWindow == 14
StochSmooth == 3

\* the sum of the floats seq[lo], ..., seq[hi]
RECURSIVE SumOver(_, _, _)
SumOver(seq, lo, hi) ==
    IF lo > hi THEN RatInt(0) ELSE RatAdd(SumOver(seq, lo, hi - 1), seq[hi])

\* series.rolling(window).mean(), .min() and .max() at row i: NaN before row window
RollingMean(seq, i, window) ==
    IF i < window THEN NaN
    ELSE RatDiv(SumOver(seq, i - window + 1, i), RatInt(window))
RollingMin(seq, i, window) ==
    IF i < window THEN NaN
    ELSE CHOOSE x \in {seq[j] : j \in (i - window + 1)..i} :
             \A j \in (i - window + 1)..i : RatLE(x, seq[j])
RollingMax(seq, i, window) ==
    IF i < window THEN NaN
    ELSE CHOOSE x \in {seq[j] : j \in (i - window + 1)..i} :
             \A j \in (i - window + 1)..i : RatLE(seq[j], x)

\* the signs a float zero can carry: 0.0 and -0.0
SignsOfZero == {1, -1}

\* faulty variant: a division by zero gives NaN whatever the numerator
FloatDiv_ZeroIsNaN(x, y, zero) ==
    IF y = RatInt(0) THEN NaN ELSE RatDiv(x, y)

\* x / y of numpy's float64 where a zero y carries the sign zero: 0 / 0 is
\* NaN, and x / 0 is inf or -inf by the signs of x and of the zero
FloatDiv(x, y, zero) ==
    IF y = RatInt(0) THEN RatDiv(RatMul(x, RatInt(zero)), y) ELSE RatDiv(x, y)

\* delta = df['close'].diff()
Delta(rows) ==
    [i \in 1..Len(rows) |->
        IF i = 1 THEN NaN ELSE RatSub(rows[i].close, rows[i - 1].close)]

\* df['rsi'] at row i; zero is the sign of a zero rolling mean of the losses,
\* which are negated values (-0.0 where there is no loss)
Rsi(rows, i, zero) ==
    LET delta == Delta(rows)
        gains == [j \in 1..Len(rows) |->
                     IF RatGT(delta[j], RatInt(0)) THEN delta[j] ELSE RatInt(0)]
        losses == [j \in 1..Len(rows) |->
                      RatNeg(IF RatLT(delta[j], RatInt(0)) THEN delta[j] ELSE RatInt(0))]
        gain == RollingMean(gains, i, RsiWindow)
        loss == RollingMean(losses, i, RsiWindow)
        rs == FloatDiv(gain, loss, zero)
    IN  RatSub(RatInt(100), RatDiv(RatInt(100), RatAdd(RatInt(1), rs)))

\* df['sma_20'] at row i
Sma20(rows, i) == RollingMean(Column(rows, "close"), i, SmaWindow)

\* df['stoch_k'] at row i; high_14 - low_14 is 0.0 when the window is flat
StochK(rows, i) ==
    LET low_14 == RollingMin(Column(rows, "low"), i, StochWindow)
        high_14 == RollingMax(Column(rows, "high"), i, StochWindow)
    IN  RatMul(RatInt(100),
               FloatDiv(RatSub(rows[i].close, low_14), RatSub(high_14, low_14), 1))

\* df['stoch_d'] at row i
StochD(rows, i) ==
    IF i < StochSmooth THEN NaN
    ELSE RollingMean([j \in 1..Len(rows) |-> StochK(rows, j)], i, StochSmooth)

\* the values of the added columns in the last row; none when the frame is
\* returned as it came
NoIndicators ==
    [computed |-> FALSE, rsi |-> NaN, sma_20 |-> NaN, stoch_k |-> NaN, stoch_d |-> NaN]

\* generate_indicator_explanations(df) from the values of the last row
generate_indicator_explanations(rows, ind, macd, macd_signal) ==
    IF Len(rows) = 0 THEN NoExplanations
    ELSE Explanations(get_rsi_interpretation(ind.rsi),
                      get_macd_interpretation(macd, macd_signal),
                      get_stoch_interpretation(ind.stoch_k, ind.stoch_d),
                      get_trend_interpretation(rows[Len(rows)].close, ind.sma_20))

\* the columns added at lines 264-292, in the last row of the frame
IndicatorColumns(rows, zero) ==
    [computed |-> TRUE,
     rsi |-> Rsi(rows, Len(rows), zero),
     sma_20 |-> Sma20(rows, Len(rows)),
     stoch_k |-> StochK(rows, Len(rows)),
     stoch_d |-> StochD(rows, Len(rows))]

\* the columns the assignments df['rsi'] = ... to df['volume_ratio'] = ...
\* create on the frame they are given
AssignedColumns ==
    {"rsi", "sma_20", "ema_12", "ema_26", "macd", "macd_signal", "macd_histogram",
     "bb_middle", "bb_upper", "bb_lower", "bb_width", "stoch_k", "stoch_d",
     "volume_sma", "volume_ratio"}

\* df, explanations = calculate_technical_indicators(frame), last being
\* IndicatorColumns of the rows of the frame.  The df returned is the object
\* that was passed in, with the assigned columns on it.
calculate_technical_indicators(frame, last, macd, macd_signal) ==
    IF frame.is_none \/ Len(frame.rows) < MinRows
    THEN [df |-> frame, indicators |-> NoIndicators, explanations |-> NoExplanations]
    ELSE [df |-> [frame EXCEPT !.columns = @ \cup AssignedColumns],
          indicators |-> last,
          explanations |->
              generate_indicator_explanations(frame.rows, last, macd, macd_signal)]

-----------------------------------------------------------------------------
(* analyze_news_sentiment.  A news item is a mapping; the counts are kept   *)
(* in a mapping with the keys neutral, positive, negative and total.        *)

\* item.get('sentiment', 'neutral')
SentimentOf(item) == IF "sentiment" \in DOMAIN item THEN item.sentiment ELSE "neutral"

\* lines 84-87: the loop over the items from the k-th on
RECURSIVE CountSentiments(_, _, _)
CountSentiments(items, k, sentiment_count) ==
    IF k > Len(items) THEN sentiment_count
    ELSE LET sentiment == SentimentOf(items[k])
         IN  CountSentiments(items, k + 1,
                 IF sentiment \in DOMAIN sentiment_count
                 THEN [sentiment_count EXCEPT ![sentiment] = @ + 1]
                 ELSE sentiment_count)

analyze_news_sentiment(items) ==
    IF Len(items) = 0
    THEN [neutral |-> 0, positive |-> 0, negative |-> 0, total |-> 0,
          news_score |-> RatInt(0)]
    ELSE LET sentiment_count ==
                 CountSentiments(items, 1, [neutral |-> 0, positive |-> 0, negative |-> 0,
                                            total |-> Len(items)])
             total_score ==
                 RatMul(RatDiv(RatInt(sentiment_count.positive - sentiment_count.negative),
                               RatInt(sentiment_count.total)),
                        RatInt(100))
         IN  [neutral |-> sentiment_count.neutral, positive |-> sentiment_count.positive,
              negative |-> sentiment_count.negative, total |-> sentiment_count.total,
              news_score |-> total_score]

-----------------------------------------------------------------------------
(* app.py, the dashboard page.  get_gateio_data asks the exchange for the   *)
(* ticker of a symbol; the response is a status code and a JSON value, a    *)
(* ticker a mapping from field names to strings.  The numbers of a record   *)
(* are floats; the 0 of the placeholder is written as the float 0.          *)

CRYPTO_PAIRS ==
    << "DOGE_USDT", "LINK_USDT", "SEI_USDT", "ALCH_USDT", "GIGGLE_USDT", "COAI_USDT",
       "FARTCOIN_USDT" >>

Symbols == {CRYPTO_PAIRS[i] : i \in 1..Len(CRYPTO_PAIRS)}

\* the keys of the ticker read at lines 38-43, in the order they are read
TickerFields ==
    << "last", "change_percentage", "high_24h", "low_24h", "quote_volume", "base_volume" >>

\* the dict returned at lines 51-60
Placeholder(symbol) ==
    [symbol |-> symbol, last |-> RatInt(0), change_percentage |-> RatInt(0),
     high_24h |-> RatInt(0), low_24h |-> RatInt(0), quote_volume |-> RatInt(0),
     source |-> "Ne dostupno", available |-> FALSE]

\* float(str): the parse of a numeral; any other string raises ValueError
float(str) == ParseNumber(str)

\* faulty variant: the status code is not tested
get_gateio_data_any_status(symbol, resp) ==
    IF resp.raises THEN Placeholder(symbol)
    ELSE IF ~(resp.json.is_list /\ Len(resp.json.items) > 0) THEN Placeholder(symbol)
    ELSE LET ticker == resp.json.items[1]
             missing == \E k \in 1..Len(TickerFields) : TickerFields[k] \notin DOMAIN ticker
             parsed == [k \in 1..Len(TickerFields) |-> float(ticker[TickerFields[k]])]
         IN  IF missing \/ \E k \in 1..Len(TickerFields) : parsed[k].raised
             THEN Placeholder(symbol)
             ELSE [symbol |-> symbol, last |-> parsed[1].value,
                   change_percentage |-> parsed[2].value, high_24h |-> parsed[3].value,
                   low_24h |-> parsed[4].value, quote_volume |-> parsed[5].value,
                   base_volume |-> parsed[6].value, source |-> "Gate.io",
                   available |-> TRUE]

\* get_gateio_data(symbol), resp being the response of the exchange.  An
\* exception of the request, of response.json(), of data[0] on a JSON object,
\* of a missing key (KeyError) or of float (ValueError) is caught at line 48,
\* and the function goes on to return the placeholder, as it does for a status
\* other than 200 and for an empty list.
get_gateio_data(symbol, resp) ==
    IF resp.raises THEN Placeholder(symbol)
    ELSE IF resp.status_code # 200 THEN Placeholder(symbol)
    ELSE IF ~(resp.json.is_list /\ Len(resp.json.items) > 0) THEN Placeholder(symbol)
    ELSE LET ticker == resp.json.items[1]
             missing == \E k \in 1..Len(TickerFields) : TickerFields[k] \notin DOMAIN ticker
             parsed == [k \in 1..Len(TickerFields) |-> float(ticker[TickerFields[k]])]
         IN  IF missing \/ \E k \in 1..Len(TickerFields) : parsed[k].raised
             THEN Placeholder(symbol)
             ELSE [symbol |-> symbol, last |-> parsed[1].value,
                   change_percentage |-> parsed[2].value, high_24h |-> parsed[3].value,
                   low_24h |-> parsed[4].value, quote_volume |-> parsed[5].value,
                   base_volume |-> parsed[6].value, source |-> "Gate.io",
                   available |-> TRUE]

\* the period of the automatic refresh, in seconds (line 148)
RefreshPeriod == 60

\* faulty variant: the refresh is due whatever the time since the last one
RefreshDue_Always(time_since_update) == time_since_update >= 0

\* line 148: time_since_update > 60
RefreshDue(time_since_update) == time_since_update > RefreshPeriod

\* what the dashboard shows for a symbol (lines 174-229): the metrics with the
\* chart, the metrics with the approximate chart, or the error message
Shown(record, frame) ==
    IF record.available
    THEN IF ~frame.is_none /\ Len(frame.rows) > 0
         THEN "metrics and chart"
         ELSE "metrics and approximate chart"
    ELSE "not available"

-----------------------------------------------------------------------------
(* The state machine: one call at a time, then a rerun of the script *)

Init ==
    /\ pc = "idle"
    /\ interp = NoInterp
    /\ explanations = NoExplanations
    /\ current_data = NoCurrentData
    /\ news_sentiment = NoNews
    /\ recommendation = NoRecommendation
    /\ previous = NoPrevious
    /\ response = NoResponse
    /\ historical_data = None
    /\ df = None
    /\ indicators = NoIndicators
    /\ fib_levels = NoLevels
    /\ error = ""
    /\ news_items = NoNewsItems
    /\ last_update = 0
    /\ crypto_data = NoRecords
    /\ klines = NoRecords
    /\ auto_refresh = TRUE
    /\ button = FALSE
    /\ now = FirstClock
    /\ cleared = FALSE
    /\ chain = << >>
    /\ shown = NoRecords

\* the dashboard page is not running
UnchangedDashboard ==
    UNCHANGED <<last_update, crypto_data, klines, auto_refresh, button, now, cleared,
                chain, shown>>

UnchangedElsewhere ==
    /\ UNCHANGED news_items
    /\ UnchangedDashboard

UnchangedData ==
    /\ UNCHANGED <<response, historical_data, df, indicators, fib_levels, error>>
    /\ UnchangedElsewhere

UnchangedCall ==
    /\ UNCHANGED <<explanations, current_data, news_sentiment, recommendation, previous>>
    /\ UnchangedData

GetRsiInterpretation ==
    /\ pc = "idle"
    /\ \E rsi \in Floats(RsiValues) :
          interp' = [fn |-> "get_rsi_interpretation", a |-> rsi, b |-> RatInt(0),
                     text |-> get_rsi_interpretation(rsi)]
    /\ pc' = "interpreted"
    /\ UnchangedCall

GetMacdInterpretation ==
    /\ pc = "idle"
    /\ \E macd \in Floats(MacdValues), signal \in Floats(MacdValues) :
          interp' = [fn |-> "get_macd_interpretation", a |-> macd, b |-> signal,
                     text |-> get_macd_interpretation(macd, signal)]
    /\ pc' = "interpreted"
    /\ UnchangedCall

GetStochInterpretation ==
    /\ pc = "idle"
    /\ \E k \in Floats(StochValues), d \in Floats(StochValues) :
          interp' = [fn |-> "get_stoch_interpretation", a |-> k, b |-> d,
                     text |-> get_stoch_interpretation(k, d)]
    /\ pc' = "interpreted"
    /\ UnchangedCall

GetTrendInterpretation ==
    /\ pc = "idle"
    /\ \E price \in Floats(PriceValues), sma_20 \in Floats(PriceValues) :
          interp' = [fn |-> "get_trend_interpretation", a |-> price, b |-> sma_20,
                     text |-> get_trend_interpretation(price, sma_20)]
    /\ pc' = "interpreted"
    /\ UnchangedCall

\* recommendation = generate_trading_recommendation(expl, cd, ns), line 685
Call(expl, cd, ns) ==
    /\ explanations' = expl
    /\ current_data' = cd
    /\ news_sentiment' = ns
    /\ recommendation' = generate_trading_recommendation(expl, cd, ns)
    /\ UNCHANGED interp
    /\ UnchangedData

GenerateTradingRecommendation ==
    /\ pc = "idle"
    /\ \E r \in RsiTexts \cup {NoText}, m \in MacdTexts \cup {NoText},
          s \in StochTexts \cup {NoText}, t \in TrendTexts \cup {NoText},
          cd \in CurrentData, score \in NewsScores :
          Call(Explanations(r, m, s, t), cd, [news_score |-> score])
    /\ pc' = "recommended"
    /\ UNCHANGED previous

\* news items with a sentiment of the three counted, with another string (one
\* of them a key of the counts), and without a sentiment
NewsItems ==
    {[sentiment |-> x] : x \in {"positive", "negative", "neutral", "total", "important"}}
        \cup {[title |-> "news"]}

\* sentiment_analysis = analyze_news_sentiment(news_items), line 672
AnalyzeNewsSentiment ==
    /\ pc = "idle"
    /\ \E items \in UNION {[1..k -> NewsItems] : k \in 0..MaxListed} :
          /\ news_items' = items
          /\ news_sentiment' = analyze_news_sentiment(items)
    /\ pc' = "analyzed"
    /\ UNCHANGED <<interp, explanations, current_data, recommendation, previous, response,
                   historical_data, df, indicators, fib_levels, error>>
    /\ UnchangedDashboard

\* the script runs again from the top (st.rerun, lines 958-960): nothing is kept
Rerun ==
    /\ pc # "idle"
    /\ pc' = "idle"
    /\ interp' = NoInterp
    /\ explanations' = NoExplanations
    /\ current_data' = NoCurrentData
    /\ news_sentiment' = NoNews
    /\ recommendation' = NoRecommendation
    /\ previous' = NoPrevious
    /\ response' = NoResponse
    /\ historical_data' = None
    /\ df' = None
    /\ indicators' = NoIndicators
    /\ fib_levels' = NoLevels
    /\ error' = ""
    /\ news_items' = NoNewsItems
    /\ UnchangedDashboard

Next ==
    \/ GetRsiInterpretation
    \/ GetMacdInterpretation
    \/ GetStochInterpretation
    \/ GetTrendInterpretation
    \/ GenerateTradingRecommendation
    \/ AnalyzeNewsSentiment
    \/ Rerun

Spec == Init /\ [][Next]_vars

-----------------------------------------------------------------------------
(* Two calls in a row whose explanations carry the same verdicts, for the  *)
(* comparison of their results.  The verdicts are those of the data model: *)
(* the strong and the plain variant of a verdict are the same verdict.     *)

Verdict(text) ==
    CASE text \in {RSI_OVERSOLD, RSI_STRONG_OVERSOLD,
                   STOCH_OVERSOLD, STOCH_STRONG_OVERSOLD} -> "OVERSOLD"
      [] text \in {RSI_OVERBOUGHT, RSI_STRONG_OVERBOUGHT,
                   STOCH_OVERBOUGHT, STOCH_STRONG_OVERBOUGHT} -> "OVERBOUGHT"
      [] text \in {MACD_BULLISH, MACD_STRONG_BULLISH, TREND_UP, TREND_STRONG_UP}
            -> "BULLISH"
      [] text \in {MACD_BEARISH, MACD_STRONG_BEARISH, TREND_DOWN, TREND_STRONG_DOWN}
            -> "BEARISH"
      [] OTHER -> "NEUTRAL"

\* the texts among texts that carry the verdict of expl[key]; NoText if there is none
SameVerdictTexts(expl, key, texts) ==
    IF key \in DOMAIN expl
    THEN {x \in texts : Verdict(x) = Verdict(expl[key].interpretation)}
    ELSE {NoText}

SameVerdicts(e1, e2) ==
    /\ DOMAIN e1 = DOMAIN e2
    /\ \A i \in DOMAIN e1 : Verdict(e1[i].interpretation) = Verdict(e2[i].interpretation)

FirstCall ==
    /\ pc = "idle"
    /\ \E r \in RsiTexts \cup {NoText}, m \in MacdTexts \cup {NoText},
          s \in StochTexts \cup {NoText}, t \in TrendTexts \cup {NoText},
          score \in NewsScoresOfOneItem :
          Call(Explanations(r, m, s, t), current_data, [news_score |-> score])
    /\ pc' = "recommended"
    /\ UNCHANGED previous

SecondCall ==
    /\ pc = "recommended"
    /\ previous' = [explanations |-> explanations, current_data |-> current_data,
                    news_sentiment |-> news_sentiment,
                    recommendation |-> recommendation]
    /\ \E r \in SameVerdictTexts(explanations, "rsi", RsiTexts),
          m \in SameVerdictTexts(explanations, "macd", MacdTexts),
          s \in SameVerdictTexts(explanations, "stochastic", StochTexts),
          t \in SameVerdictTexts(explanations, "trend", TrendTexts),
          cd \in CurrentData, score \in NewsScoresOfOneItem :
          Call(Explanations(r, m, s, t), cd, [news_score |-> score])
    /\ pc' = "recommended_again"

\* the texts the interpretation function of an indicator returns
TextsOf(key) ==
    CASE key = "rsi" -> RsiTexts
      [] key = "macd" -> MacdTexts
      [] key = "stochastic" -> StochTexts
      [] OTHER -> TrendTexts

\* a second call whose arguments differ from those of the first in the text of
\* one indicator only
SecondCallOneChanged ==
    /\ pc = "recommended"
    /\ previous' = [explanations |-> explanations, current_data |-> current_data,
                    news_sentiment |-> news_sentiment,
                    recommendation |-> recommendation]
    /\ \E key \in DOMAIN explanations :
          \E text \in TextsOf(key) \ {explanations[key].interpretation} :
              Call([explanations EXCEPT ![key].interpretation = text],
                   current_data, news_sentiment)
    /\ pc' = "recommended_again"

NextTwoCalls ==
    \/ FirstCall
    \/ SecondCall
    \/ SecondCallOneChanged
    \/ Rerun

SpecTwoCalls == Init /\ [][NextTwoCalls]_vars

-----------------------------------------------------------------------------
(* Calls of fetch_gateio_klines on small responses, to compare the frame   *)
(* it returns with the rows it was given                                   *)

\* a field no number can be parsed from
JunkField == << "n", "/", "a" >>
TrueField == << "t", "r", "u", "e" >>
\* a numeral with a decimal point
VolumeField == << "1", ".", "5" >>

\* the eight fields of a candlestick row with one price for open, high, low and
\* close; the field of column bad, if it is one of the numeric columns, is junk
RawRow(ts, price, bad) ==
    LET field(col, str) == IF bad = col THEN JunkField ELSE str
    IN  << ts, field("volume", VolumeField), field("close", Decimal(price)),
           field("high", Decimal(price)), field("low", Decimal(price)),
           field("open", Decimal(price)), VolumeField, TrueField >>

Timestamps == 1..MaxTimestamp
BadColumns == {numeric_cols[k] : k \in 1..Len(numeric_cols)} \cup {"none"}
RawRows == {RawRow(ts, 100 + ts, bad) : ts \in Timestamps, bad \in BadColumns}

SeqsUpTo(S, n) == UNION {[1..k -> S] : k \in 0..n}

\* responses: the request raises, an error status, a JSON object, a JSON list
JsonObject == [is_list |-> FALSE, items |-> << >>]
JsonList(items) == [is_list |-> TRUE, items |-> items]
RequestRaises == [raises |-> TRUE, status_code |-> 0, json |-> JsonObject]
Response(status_code, json) == [raises |-> FALSE, status_code |-> status_code, json |-> json]
NoListResponses ==
    {RequestRaises, Response(500, JsonObject), Response(200, JsonObject)}
SmallResponses ==
    NoListResponses
        \cup {Response(200, JsonList(items)) : items \in SeqsUpTo(RawRows, MaxRawRows)}
        \cup {Response(500, JsonList(<< RawRow(1, 101, "none") >>))}

\* historical_data = fetch_gateio_klines(...) on a small response
FetchGateioKlines ==
    /\ pc = "idle"
    /\ \E resp \in SmallResponses :
          /\ response' = resp
          /\ historical_data' = fetch_gateio_klines(resp)
    /\ pc' = "fetched"
    /\ UNCHANGED <<interp, explanations, current_data, news_sentiment, recommendation,
                   previous, df, indicators, fib_levels, error>>
    /\ UnchangedElsewhere

NextFetch ==
    \/ FetchGateioKlines
    \/ Rerun

SpecFetch == Init /\ [][NextFetch]_vars

-----------------------------------------------------------------------------
(* Calls of calculate_fibonacci_levels on None, on the empty frame and on  *)
(* short frames.  fetch_gateio_klines does not compare the high of a row   *)
(* with its low, so every pair of prices makes a row.                      *)

FibPrices == {25, 50, 75, 100}

\* the frame of the rows whose highs and lows are hl[i][1] and hl[i][2]
FibFrame(hl) ==
    DataFrame([i \in 1..Len(hl) |->
                  [timestamp |-> i, volume |-> RatInt(1), close |-> RatInt(hl[i][2]),
                   high |-> RatInt(hl[i][1]), low |-> RatInt(hl[i][2]),
                   open |-> RatInt(hl[i][2])]])

FibFrames ==
    {None} \cup {FibFrame(hl) : hl \in SeqsUpTo(FibPrices \X FibPrices, MaxFibRows)}

\* fib_levels = calculate_fibonacci_levels(df)
CalculateFibonacciLevels ==
    /\ pc = "idle"
    /\ \E frame \in FibFrames :
          /\ df' = frame
          /\ fib_levels' = calculate_fibonacci_levels(frame)
    /\ pc' = "fib_called"
    /\ UNCHANGED <<interp, explanations, current_data, news_sentiment, recommendation,
                   previous, response, historical_data, indicators, error>>
    /\ UnchangedElsewhere

NextFib ==
    \/ CalculateFibonacciLevels
    \/ Rerun

SpecFib == Init /\ [][NextFib]_vars

-----------------------------------------------------------------------------
(* One run of main for the selected pair: the data are loaded (lines       *)
(* 666-672), then, if the pair is available and the candles were fetched,  *)
(* the indicators, the Fibonacci levels and the recommendation are         *)
(* computed (lines 678-685) and displayed (lines 686-947); else the        *)
(* "not enough data" messages are shown (lines 950-955).                   *)

\* the first close of a generated series
BasePrice == 100
Slopes == {-1, 0, 1}
Spreads == {0, 1}

\* the close of candle i of a series that moves by s1 a candle for the first
\* turn candles and by s2 a candle afterwards
SeriesClose(i, s1, s2, turn) ==
    LET k == i - 1
    IN  BasePrice + s1 * (IF k < turn THEN k ELSE turn)
                  + s2 * (IF k < turn THEN 0 ELSE k - turn)

\* the raw row of candle i: it opens at the close before it, and its high and
\* low lie spread above and below its open and close
SeriesRow(i, s1, s2, turn, spread) ==
    LET close == SeriesClose(i, s1, s2, turn)
        open == IF i = 1 THEN close ELSE SeriesClose(i - 1, s1, s2, turn)
        high == (IF open > close THEN open ELSE close) + spread
        low == (IF open < close THEN open ELSE close) - spread
    IN  << i, VolumeField, Decimal(close), Decimal(high), Decimal(low), Decimal(open),
           VolumeField, TrueField >>

\* the rows of a series of n candles, oldest first or newest first
SeriesRows(n, s1, s2, turn, spread, newest_first) ==
    [j \in 1..n |->
        SeriesRow(IF newest_first THEN n + 1 - j ELSE j, s1, s2, turn, spread)]

\* the shapes of a series: one slope throughout, or a turn after 5, 10 or 15 candles
Shapes ==
    {<< s, s, 0 >> : s \in Slopes}
        \cup {sh \in Slopes \X Slopes \X {5, 10, 15} : sh[1] # sh[2]}

\* the numbers of candles of a series
RowCounts == 0..MaxRows

\* the response carrying the series of n candles of shape sh
SeriesResponse(n, sh, spread, newest_first) ==
    Response(200, JsonList(SeriesRows(n, sh[1], sh[2], sh[3], spread, newest_first)))

\* the snapshot of get_gateio_data: a traded pair, or the placeholder
MainCurrentData == {[available |-> TRUE, last |-> BasePrice], [available |-> FALSE, last |-> 0]}

\* whether the closes of the rows are all equal
ConstantClose(rows) == \A i \in 1..Len(rows) : rows[i].close = rows[1].close

\* the MACD and signal values the last row can have: both 0 for a constant
\* close (the weighted mean of equal values is that value), else any pair;
\* under MinRows rows no MACD column is computed and the values are not read
MacdOutcomes(rows) ==
    IF Len(rows) < MinRows \/ ConstantClose(rows)
    THEN {<< 0, 0 >>}
    ELSE MacdValues \X MacdValues

\* lines 666-672
Loaded(resp) ==
    \E frame \in {fetch_gateio_klines(resp)} :
        \E cd \in MainCurrentData, score \in NewsScoresOfOneItem :
            /\ current_data' = cd
            /\ response' = resp
            /\ historical_data' = frame
            /\ news_sentiment' = [news_score |-> score]

MainLoad ==
    /\ pc = "idle"
    /\ \/ \E resp \in NoListResponses : Loaded(resp)
       \/ \E n \in RowCounts, sh \in Shapes, spread \in Spreads, newest_first \in BOOLEAN :
             \E resp \in {SeriesResponse(n, sh, spread, newest_first)} : Loaded(resp)
    /\ pc' = "loaded"
    /\ UNCHANGED <<interp, explanations, recommendation, previous, df, indicators,
                   fib_levels, error>>
    /\ UnchangedElsewhere

\* line 676, else branch: the messages of lines 950-955
MainUnavailable ==
    /\ pc = "loaded"
    /\ ~(current_data.available /\ ~historical_data.is_none)
    /\ pc' = "unavailable"
    /\ UNCHANGED <<interp, explanations, current_data, news_sentiment, recommendation,
                   previous, response, historical_data, df, indicators, fib_levels, error>>
    /\ UnchangedElsewhere

\* line 678: df and historical_data name one and the same frame afterwards
MainCalculateIndicators ==
    /\ pc = "loaded"
    /\ current_data.available /\ ~historical_data.is_none
    /\ \E zero \in SignsOfZero :
          \E last \in {IndicatorColumns(historical_data.rows, zero)} :
              \E m \in MacdOutcomes(historical_data.rows) :
                  LET result == calculate_technical_indicators(
                                    historical_data, last, RatInt(m[1]), RatInt(m[2]))
                  IN  /\ df' = result.df
                      /\ historical_data' = result.df
                      /\ indicators' = result.indicators
                      /\ explanations' = result.explanations
    /\ pc' = "indicators"
    /\ UNCHANGED <<interp, current_data, news_sentiment, recommendation, previous,
                   response, fib_levels, error>>
    /\ UnchangedElsewhere

\* line 682
MainFibonacciLevels ==
    /\ pc = "indicators"
    /\ fib_levels' = calculate_fibonacci_levels(df)
    /\ pc' = "levels"
    /\ UNCHANGED <<interp, explanations, current_data, news_sentiment, recommendation,
                   previous, response, historical_data, df, indicators, error>>
    /\ UnchangedElsewhere

\* line 685
MainRecommend ==
    /\ pc = "levels"
    /\ recommendation' =
          generate_trading_recommendation(explanations, current_data, news_sentiment)
    /\ pc' = "main_recommended"
    /\ UNCHANGED <<interp, explanations, current_data, news_sentiment, previous,
                   response, historical_data, df, indicators, fib_levels, error>>
    /\ UnchangedElsewhere

\* lines 686-947: the results are displayed; min(fib_levels.values()) at line
\* 929 raises ValueError for the empty mapping, which ends the run
MainDisplay ==
    /\ pc = "main_recommended"
    /\ IF fib_levels = NoLevels
       THEN pc' = "raised" /\ error' = "ValueError"
       ELSE pc' = "displayed" /\ error' = error
    /\ UNCHANGED <<interp, explanations, current_data, news_sentiment, recommendation,
                   previous, response, historical_data, df, indicators, fib_levels>>
    /\ UnchangedElsewhere

NextMain ==
    \/ MainLoad
    \/ MainUnavailable
    \/ MainCalculateIndicators
    \/ MainFibonacciLevels
    \/ MainRecommend
    \/ MainDisplay
    \/ Rerun

SpecMain == Init /\ [][NextMain]_vars

-----------------------------------------------------------------------------
(* SpecDash: the runs of main_page of app.py in one session.  A run goes   *)
(* from the top of the script to its end, or to a st.rerun(), which starts *)
(* the next run at once; when a run has ended the user starts the next one *)
(* with a widget.  Time passes between the tops of two runs.               *)

\* a ticker of the exchange with all its fields, and the same with one field
\* that is not a numeral or with one field missing
GoodTicker(price) ==
    [last |-> Decimal(price), change_percentage |-> << "-", "1", ".", "5" >>,
     high_24h |-> Decimal(price + 1), low_24h |-> Decimal(price - 1),
     quote_volume |-> VolumeField, base_volume |-> VolumeField]
BadTicker(field) == [GoodTicker(BasePrice) EXCEPT ![field] = JunkField]
ShortTicker(field) ==
    [f \in (DOMAIN GoodTicker(BasePrice)) \ {field} |-> GoodTicker(BasePrice)[f]]

GoodTickerResponses == {Response(200, JsonList(<< GoodTicker(p) >>)) : p \in {1, BasePrice}}
BadTickerResponses ==
    {RequestRaises, Response(500, JsonObject), Response(200, JsonObject),
     Response(200, JsonList(<< >>)), Response(404, JsonList(<< GoodTicker(BasePrice) >>))}
      \cup {Response(200, JsonList(<< BadTicker(TickerFields[k]) >>)) :
                k \in 1..Len(TickerFields)}
      \cup {Response(200, JsonList(<< ShortTicker(TickerFields[k]) >>)) :
                k \in 1..Len(TickerFields)}

\* the candlestick responses of a run: none, or one candle
KlineResponses == {RequestRaises, Response(200, JsonList(<< RawRow(1, BasePrice, "none") >>))}

\* the time that passes between the tops of two runs
Delays == {RefreshPeriod \div 3, RefreshPeriod - 1, RefreshPeriod + 1}

\* the variables of the analysis page but response
UnchangedAnalysis ==
    UNCHANGED <<interp, explanations, current_data, news_sentiment, recommendation,
                previous, historical_data, df, indicators, fib_levels, error, news_items>>

UnchangedPage ==
    /\ UNCHANGED response
    /\ UnchangedAnalysis

\* the first run of the session: the widgets have their default values
DashOpen ==
    /\ pc = "idle"
    /\ pc' = "top"
    /\ UNCHANGED <<last_update, crypto_data, klines, auto_refresh, button, now, cleared,
                   chain, shown>>
    /\ UnchangedPage

\* the user starts a run: by the checkbox (line 138), by the button (line 237)
\* or by coming back to the page
DashInteract ==
    /\ pc = "done"
    /\ \E d \in Delays, widget \in {"checkbox", "button", "none"} :
          /\ now + d <= MaxClock
          /\ now' = now + d
          /\ auto_refresh' = IF widget = "checkbox" THEN ~auto_refresh ELSE auto_refresh
          /\ button' = (widget = "button")
    /\ cleared' = FALSE
    /\ chain' = << >>
    /\ shown' = NoRecords
    /\ pc' = "top"
    /\ UNCHANGED <<last_update, crypto_data, klines>>
    /\ UnchangedPage

\* lines 141-152: the timer of the automatic refresh
DashTop ==
    /\ pc = "top"
    /\ IF auto_refresh /\ RefreshDue(now - last_update)
       THEN /\ last_update' = now
            /\ cleared' = TRUE
            /\ pc' = "refresh_rerun"
       ELSE /\ pc' = "loading"
            /\ UNCHANGED <<last_update, cleared>>
    /\ UNCHANGED <<crypto_data, klines, auto_refresh, button, now, chain, shown>>
    /\ UnchangedPage

\* st.rerun() at line 152 or 240: the script starts again from the top; a
\* button is True in the run its click started only
DashForcedRerun ==
    /\ pc \in {"refresh_rerun", "button_rerun"}
    /\ Len(chain) < MaxChain
    /\ \E d \in Delays :
          /\ now + d <= MaxClock
          /\ now' = now + d
          /\ chain' = Append(chain, [cause |-> pc, elapsed |-> d])
    /\ button' = FALSE
    /\ cleared' = FALSE
    /\ shown' = NoRecords
    /\ pc' = "top"
    /\ UNCHANGED <<last_update, crypto_data, klines, auto_refresh>>
    /\ UnchangedPage

\* lines 155-166: a record and a frame are stored for every symbol, ticker
\* and candles being the responses of the exchange for each symbol
StoreAll(ticker, candles) ==
    /\ response' = [ticker |-> ticker, candles |-> candles]
    /\ crypto_data' = [s \in Symbols |-> get_gateio_data(s, ticker[s])]
    /\ klines' = [s \in Symbols |-> fetch_gateio_klines(candles[s])]

\* the exchange is up or down: it answers all symbols alike
DashLoad ==
    /\ pc = "loading"
    /\ \E resp \in {RequestRaises, Response(200, JsonList(<< GoodTicker(BasePrice) >>))},
          kresp \in KlineResponses :
          StoreAll([s \in Symbols |-> resp], [s \in Symbols |-> kresp])
    /\ pc' = "stored"
    /\ UNCHANGED <<last_update, auto_refresh, button, now, cleared, chain, shown>>
    /\ UnchangedAnalysis

\* the same lines, the exchange answering one symbol at most unlike the others
DashLoadMixed ==
    /\ pc = "loading"
    /\ \E good \in GoodTickerResponses, bad \in BadTickerResponses,
          odd \in {{}} \cup {{s} : s \in Symbols}, kresp \in KlineResponses :
          StoreAll([s \in Symbols |-> IF s \in odd THEN bad ELSE good],
                   [s \in Symbols |-> kresp])
    /\ pc' = "stored"
    /\ UNCHANGED <<last_update, auto_refresh, button, now, cleared, chain, shown>>
    /\ UnchangedAnalysis

\* lines 169-231
DashDisplay ==
    /\ pc = "stored"
    /\ shown' = [s \in Symbols |-> Shown(crypto_data[s], klines[s])]
    /\ pc' = "shown"
    /\ UNCHANGED <<last_update, crypto_data, klines, auto_refresh, button, now, cleared,
                   chain>>
    /\ UnchangedPage

\* lines 237-240: the 'refresh now' button; without it the run ends
DashBottom ==
    /\ pc = "shown"
    /\ IF button
       THEN /\ last_update' = 0
            /\ cleared' = TRUE
            /\ pc' = "button_rerun"
       ELSE /\ pc' = "done"
            /\ UNCHANGED <<last_update, cleared>>
    /\ UNCHANGED <<crypto_data, klines, auto_refresh, button, now, chain, shown>>
    /\ UnchangedPage

NextDash ==
    \/ DashOpen
    \/ DashInteract
    \/ DashTop
    \/ DashForcedRerun
    \/ DashLoad
    \/ DashDisplay
    \/ DashBottom

SpecDash == Init /\ [][NextDash]_vars

\* SpecTicker: the first page view of a session, with all the ticker responses
NextTicker ==
    \/ DashOpen
    \/ DashTop
    \/ DashForcedRerun
    \/ DashLoadMixed
    \/ DashDisplay
    \/ DashBottom

SpecTicker == Init /\ [][NextTicker]_vars

-----------------------------------------------------------------------------
(* Vocabulary of the properties.  The verdict an interpretation text       *)
(* carries is read off the text itself (which return statement produced    *)
(* it), not off the keyword search of generate_trading_recommendation.     *)

FavourableTexts ==
    {RSI_OVERSOLD, RSI_STRONG_OVERSOLD, MACD_BULLISH, MACD_STRONG_BULLISH,
     STOCH_OVERSOLD, STOCH_STRONG_OVERSOLD, TREND_UP, TREND_STRONG_UP}

AdverseTexts ==
    {RSI_OVERBOUGHT, RSI_STRONG_OVERBOUGHT, MACD_BEARISH, MACD_STRONG_BEARISH,
     STOCH_OVERBOUGHT, STOCH_STRONG_OVERBOUGHT, TREND_DOWN, TREND_STRONG_DOWN}

NeutralTexts == {RSI_NEUTRAL, STOCH_NEUTRAL, TREND_SIDEWAYS}

\* twice the vote of a text: 1 favourable, 0.5 neutral, 0 adverse
Vote2(text) ==
    IF text \in FavourableTexts THEN 2 ELSE IF text \in AdverseTexts THEN 0 ELSE 1

RECURSIVE SumVote2(_, _)
SumVote2(expl, keys) ==
    IF keys = {} THEN 0
    ELSE LET k == CHOOSE x \in keys : TRUE
         IN  Vote2(expl[k].interpretation) + SumVote2(expl, keys \ {k})

\* twice the vote of the news: 1 if news_score > 10, 0 if < -10, else 0.5
NewsVote2(ns) ==
    IF ns.news_score.n > 10 * ns.news_score.d THEN 2
    ELSE IF ns.news_score.n < -10 * ns.news_score.d THEN 0
    ELSE 1

Recommended == pc = "recommended"
\* a call of the interpretation function fn on numbers (integers here), not NaN
InterpretedNumbers(fn) ==
    /\ pc = "interpreted"
    /\ interp.fn = fn
    /\ interp.a.d = 1
    /\ interp.b.d = 1
\* a call of fetch_gateio_klines on a status-200 response carrying a list of rows
FetchedList ==
    /\ pc = "fetched"
    /\ ~response.raises
    /\ response.status_code = 200
    /\ response.json.is_list
    /\ Len(response.json.items) > 0
\* the raw row has a junk field in one of the five numeric columns (fields 2..6)
HasJunk(row) == \E c \in 2..6 : row[c] = JunkField
\* a call of calculate_fibonacci_levels on a frame with at least one row
FibCalledOnRows ==
    /\ pc = "fib_called"
    /\ ~df.is_none
    /\ Len(df.rows) > 0
\* the highest high and the lowest low of the rows of df (whole numbers here)
MaxHigh ==
    CHOOSE h \in {df.rows[i].high.n : i \in 1..Len(df.rows)} :
        \A i \in 1..Len(df.rows) : df.rows[i].high.n <= h
MinLow ==
    CHOOSE l \in {df.rows[i].low.n : i \in 1..Len(df.rows)} :
        \A i \in 1..Len(df.rows) : l <= df.rows[i].low.n
\* the keys of the seven levels, and their ratios in thousandths
FibKeys == << "0.0", "0.236", "0.382", "0.5", "0.618", "0.786", "1.0" >>
FibThousandths == << 0, 236, 382, 500, 618, 786, 1000 >>
\* the run of main has reached one of its ends
MainEnded == pc \in {"unavailable", "displayed", "raised"}
\* the run of main is past line 678
AnalysisEntered == pc \in {"indicators", "levels", "main_recommended", "displayed", "raised"}
\* ... and the indicator columns were computed
IndicatorsComputed == AnalysisEntered /\ indicators.computed
\* the changes of the close over the last RsiWindow candles of df
RsiWindowDeltas ==
    {RatSub(df.rows[i].close, df.rows[i - 1].close) :
        i \in (Len(df.rows) - RsiWindow + 1)..Len(df.rows)}
NoFallInRsiWindow == \A x \in RsiWindowDeltas : RatGE(x, RatInt(0))
SomeRiseInRsiWindow == \E x \in RsiWindowDeltas : RatGT(x, RatInt(0))
\* every candle of df has its open, high, low and close at one and the same price
FlatSeries ==
    \A i \in 1..Len(df.rows) :
        /\ df.rows[i].open = df.rows[1].close
        /\ df.rows[i].high = df.rows[1].close
        /\ df.rows[i].low = df.rows[1].close
        /\ df.rows[i].close = df.rows[1].close
\* a call of an interpretation function with NaN for at least one argument
InterpretedNaN ==
    /\ pc = "interpreted"
    /\ IsNaN(interp.a) \/ IsNaN(interp.b)
AllPresent == DOMAIN explanations = Indicators
AllFavourable ==
    AllPresent /\ \A i \in Indicators : explanations[i].interpretation \in FavourableTexts
AllAdverse ==
    AllPresent /\ \A i \in Indicators : explanations[i].interpretation \in AdverseTexts
ScoreIs(v) == recommendation.score.n = v * recommendation.score.d
NewsScoreInRange ==
    /\ news_sentiment.news_score.n >= -100 * news_sentiment.news_score.d
    /\ news_sentiment.news_score.n <= 100 * news_sentiment.news_score.d

-----------------------------------------------------------------------------
(* C1.  For every explanations mapping and every news_score in [-100, 100] *)
(* the returned score lies in [0, 100].                                    *)
(* Fails: explanations = {} with news_score = -100 returns -20.            *)
C1_ScoreInRange ==
    (Recommended /\ NewsScoreInRange) =>
        /\ recommendation.score.n >= 0
        /\ recommendation.score.n <= 100 * recommendation.score.d

(* C2.  With an empty indicator set the call returns score 50 and the      *)
(* NEUTRAL label.                                                          *)
(* Fails: explanations = {} with news_score = 0 returns 40 and the         *)
(* moderately-negative label.                                              *)
C2_EmptyIsNeutral50 ==
    (Recommended /\ DOMAIN explanations = {}) =>
        /\ ScoreIs(50)
        /\ recommendation.recommendation = NEJTRALNYJ

(* C3.  All four indicators favourable give score 100 and STRONG_BUY; all  *)
(* four adverse give score 0 and STRONG_SELL.                              *)
(* Fails: with news_score = 0, all favourable returns 72 and all adverse   *)
(* returns 8.                                                              *)
C3_AllFavourableOrAdverse ==
    Recommended =>
        /\ AllFavourable =>
              ScoreIs(100) /\ recommendation.recommendation = SIGNAL_K_POKUPKE
        /\ AllAdverse =>
              ScoreIs(0) /\ recommendation.recommendation = SIGNAL_K_PRODAZHE

C5_LabelThresholds ==
    Recommended =>
        LET n == recommendation.score.n
            d == recommendation.score.d
            label == recommendation.recommendation
        IN  /\ label \in {SIGNAL_K_POKUPKE, UMERENNO_POLOZHITELNYJ, NEJTRALNYJ,
                          UMERENNO_OTRITSATELNYJ, SIGNAL_K_PRODAZHE}
            /\ (label = SIGNAL_K_POKUPKE) <=> (n >= 70 * d)
            /\ (label = UMERENNO_POLOZHITELNYJ) <=> (n < 70 * d /\ n >= 55 * d)
            /\ (label = NEJTRALNYJ) <=> (n < 55 * d /\ n >= 45 * d)
            /\ (label = UMERENNO_OTRITSATELNYJ) <=> (n < 45 * d /\ n >= 30 * d)
            /\ (label = SIGNAL_K_PRODAZHE) <=> (n < 30 * d)

\* C5's case: a score exactly on a boundary takes the higher label
C5_Witness ==
    /\ Recommended
    /\ ScoreIs(55)
    /\ recommendation.recommendation = UMERENNO_POLOZHITELNYJ

C7_RsiInterpretation ==
    InterpretedNumbers("get_rsi_interpretation") =>
        LET rsi == interp.a.n
        IN  /\ (interp.text = RSI_STRONG_OVERBOUGHT) <=> (rsi > 80)
            /\ (interp.text = RSI_OVERBOUGHT) <=> (rsi > 70 /\ rsi <= 80)
            /\ (interp.text = RSI_STRONG_OVERSOLD) <=> (rsi < 20)
            /\ (interp.text = RSI_OVERSOLD) <=> (rsi >= 20 /\ rsi < 30)
            /\ (interp.text = RSI_NEUTRAL) <=> (rsi >= 30 /\ rsi <= 70)

\* C7's case: the boundary value 70 is neutral
C7_Witness ==
    /\ pc = "interpreted"
    /\ interp.fn = "get_rsi_interpretation"
    /\ interp.a = RatInt(70)
    /\ interp.text = RSI_NEUTRAL

(* C8.  get_macd_interpretation, diff = macd - signal: strong-bullish if   *)
(* diff > 0 and macd > 0, else bullish if diff > 0, else strong-bearish if *)
(* diff < 0 and macd < 0, else bearish; exactly one of the four.           *)
C8_MacdInterpretation ==
    InterpretedNumbers("get_macd_interpretation") =>
        LET macd == interp.a.n
            diff == interp.a.n - interp.b.n
        IN  /\ interp.text \in {MACD_STRONG_BULLISH, MACD_BULLISH,
                                MACD_STRONG_BEARISH, MACD_BEARISH}
            /\ (interp.text = MACD_STRONG_BULLISH) <=> (diff > 0 /\ macd > 0)
            /\ (interp.text = MACD_BULLISH) <=> (diff > 0 /\ macd <= 0)
            /\ (interp.text = MACD_STRONG_BEARISH) <=> (diff < 0 /\ macd < 0)
            /\ (interp.text = MACD_BEARISH) <=> (diff = 0 \/ (diff < 0 /\ macd >= 0))

\* C8's case: the else branch with diff < 0 and macd >= 0
C8_Witness ==
    /\ pc = "interpreted"
    /\ interp.fn = "get_macd_interpretation"
    /\ interp.a = RatInt(0)
    /\ interp.b = RatInt(1)
    /\ interp.text = MACD_BEARISH

(* C9.  get_stoch_interpretation: strong-overbought if both %K and %D are  *)
(* > 80, else overbought if either is > 80, else strong-oversold if both   *)
(* are < 20, else oversold if either is < 20, else neutral, in that order; *)
(* comparisons at 80 and 20 are strict.                                    *)
C9_StochInterpretation ==
    InterpretedNumbers("get_stoch_interpretation") =>
        LET k == interp.a.n
            d == interp.b.n
        IN  /\ (interp.text = STOCH_STRONG_OVERBOUGHT) <=> (k > 80 /\ d > 80)
            /\ (interp.text = STOCH_OVERBOUGHT) <=>
                  ((k > 80 \/ d > 80) /\ ~(k > 80 /\ d > 80))
            /\ (interp.text = STOCH_STRONG_OVERSOLD) <=> (k < 20 /\ d < 20)
            /\ (interp.text = STOCH_OVERSOLD) <=>
                  (k <= 80 /\ d <= 80 /\ (k < 20 \/ d < 20) /\ ~(k < 20 /\ d < 20))
            /\ (interp.text = STOCH_NEUTRAL) <=>
                  (k >= 20 /\ k <= 80 /\ d >= 20 /\ d <= 80)

\* C9's case: %K > 80 with %D < 20 is overbought
C9_Witness ==
    /\ pc = "interpreted"
    /\ interp.fn = "get_stoch_interpretation"
    /\ RatGT(interp.a, RatInt(80))
    /\ RatLT(interp.b, RatInt(20))
    /\ interp.text = STOCH_OVERBOUGHT

(* C10.  get_trend_interpretation, deviation = 100 * (price - sma_20) /    *)
(* sma_20: strong-up if deviation > 5, else up if > 2, else strong-down if *)
(* < -5, else down if < -2, else sideways; deviations of exactly 5, 2, -2  *)
(* and -5 are up, sideways, sideways and down.  With sma_20 > 0,           *)
(* deviation > c is 100 * (price - sma_20) > c * sma_20.                   *)
C10_TrendInterpretation ==
    InterpretedNumbers("get_trend_interpretation") =>
        LET dev100 == 100 * (interp.a.n - interp.b.n)
            sma_20 == interp.b.n
        IN  /\ (interp.text = TREND_STRONG_UP) <=> (dev100 > 5 * sma_20)
            /\ (interp.text = TREND_UP) <=>
                  (dev100 > 2 * sma_20 /\ dev100 <= 5 * sma_20)
            /\ (interp.text = TREND_STRONG_DOWN) <=> (dev100 < -5 * sma_20)
            /\ (interp.text = TREND_DOWN) <=>
                  (dev100 < -2 * sma_20 /\ dev100 >= -5 * sma_20)
            /\ (interp.text = TREND_SIDEWAYS) <=>
                  (dev100 >= -2 * sma_20 /\ dev100 <= 2 * sma_20)

\* C10's case: a deviation of exactly 5 per cent is up, not strong-up
C10_Witness ==
    /\ pc = "interpreted"
    /\ interp.fn = "get_trend_interpretation"
    /\ ~IsNaN(interp.a)
    /\ ~IsNaN(interp.b)
    /\ 100 * (interp.a.n - interp.b.n) = 5 * interp.b.n
    /\ interp.text = TREND_UP

(* C11.  A NaN indicator value is interpreted as neutral: each of the four *)
(* interpretation functions returns its neutral text when an argument is   *)
(* NaN, a text that counts 0.5 in the score (Vote2 = 1).                   *)
C11_NaNIsNeutral ==
    InterpretedNaN => (interp.text \in NeutralTexts /\ Vote2(interp.text) = 1)

(* C12.  When the candle input is not a list, is empty, or has fewer than  *)
(* 20 rows, the run ends with the data-unavailable messages and produces   *)
(* no indicator set and no recommendation.                                 *)
C12_ShortInputIsUnavailable ==
    (MainEnded /\ (historical_data.is_none \/ Len(historical_data.rows) < MinRows)) =>
        /\ pc = "unavailable"
        /\ ~indicators.computed
        /\ explanations = NoExplanations
        /\ recommendation = NoRecommendation

C14_ConstantCloseRsiIs50 ==
    (IndicatorsComputed /\ ConstantClose(df.rows)) => indicators.rsi = RatInt(50)

(* C15.  For a series of at least 20 candles with no fall and at least one *)
(* rise of the close over the last 14 candles, so for the series of 20     *)
(* candles that rises by 1 a candle from 100, the RSI of the last row is   *)
(* exactly 100: not NaN, and nothing is raised.                            *)
C15_RisingRsiIs100 ==
    (IndicatorsComputed /\ NoFallInRsiWindow /\ SomeRiseInRsiWindow) =>
        /\ indicators.rsi = RatInt(100)
        /\ error = ""

\* C15's case: 20 candles, the closes 100, 101, ..., 119
C15_Witness ==
    /\ IndicatorsComputed
    /\ Len(df.rows) = 20
    /\ \A i \in 1..20 : df.rows[i].close = RatInt(99 + i)
    /\ indicators.rsi = RatInt(100)

(* C16.  For a flat series, every candle with open = high = low = close at *)
(* one price, the Stochastic %K and %D of the last row are both 50.        *)
C16_FlatStochasticIs50 ==
    (IndicatorsComputed /\ FlatSeries) =>
        /\ indicators.stoch_k = RatInt(50)
        /\ indicators.stoch_d = RatInt(50)

(* C17.  For a frame with max(high) > min(low), calculate_fibonacci_levels *)
(* returns exactly the seven levels of the ratios 0, 0.236, 0.382, 0.5,    *)
(* 0.618, 0.786 and 1.0, each equal to high - ratio * (high - low); for    *)
(* high = 100 and low = 50 they are 100, 88.2, 80.9, 75, 69.1, 60.7, 50.   *)
C17_SevenLevels ==
    (FibCalledOnRows /\ MaxHigh > MinLow) =>
        /\ Len(fib_levels) = 7
        /\ [k \in 1..7 |-> fib_levels[k].level] = FibKeys
        /\ \A k \in 1..7 :
              1000 * fib_levels[k].price.n =
                  (1000 * MaxHigh - FibThousandths[k] * (MaxHigh - MinLow))
                      * fib_levels[k].price.d
        /\ (MaxHigh = 100 /\ MinLow = 50) =>
              [k \in 1..7 |-> fib_levels[k].price] =
                  << RatInt(100), Rat(882, 10), Rat(809, 10), RatInt(75),
                     Rat(691, 10), Rat(607, 10), RatInt(50) >>

\* C17's case: high = 100 and low = 50 taken from different rows
C17_Witness ==
    /\ FibCalledOnRows
    /\ MaxHigh = 100
    /\ MinLow = 50
    /\ df.rows[1].high.n < 100
    /\ df.rows[1].low.n = 50
    /\ fib_levels[2].price = Rat(882, 10)

(* C18.  calculate_fibonacci_levels returns the empty mapping, and raises  *)
(* nothing, when the frame is None, has no rows, or max(high) <= min(low); *)
(* it returns a non-empty mapping only when max(high) > min(low).          *)
C18_EmptyMappingWhenDegenerate ==
    (pc = "fib_called") =>
        /\ error = ""
        /\ (fib_levels = NoLevels) <=>
              (df.is_none \/ Len(df.rows) = 0 \/ MaxHigh <= MinLow)

\* C18's case: every row flat at one price, so max(high) = min(low)
C18_Witness ==
    /\ FibCalledOnRows
    /\ Len(df.rows) = MaxFibRows
    /\ MaxHigh = MinLow
    /\ fib_levels = NoLevels

(* C19.  The analysis flow of main, once the indicators are computed, runs *)
(* to the end of the display without raising, for a degenerate series too. *)
C19_AnalysisFlowCompletes ==
    AnalysisEntered => (pc # "raised" /\ error = "")

(* C20.  The frame returned by fetch_gateio_klines is ordered by strictly  *)
(* increasing timestamp: no timestamp occurs twice.                        *)
C20_StrictlyIncreasingTimestamps ==
    (pc = "fetched" /\ ~historical_data.is_none) =>
        \A i \in 1..Len(historical_data.rows), j \in 1..Len(historical_data.rows) :
            i < j => historical_data.rows[i].timestamp < historical_data.rows[j].timestamp

\* C21: calculate_technical_indicators and every later stage of the analysis
\* leave the series they were given as it was: from the moment the series is
\* loaded to the end of the run, no step changes historical_data, neither its
\* rows nor its columns (the run starting again from the top excepted).
C21_SeriesIsReadOnly ==
    [][(pc \in {"loaded", "indicators", "levels", "main_recommended"} /\ pc' # "idle")
          => historical_data' = historical_data]_vars

\* the rank of a label in the order from the sell signal to the buy signal
Rank(label) ==
    CASE label = SIGNAL_K_PRODAZHE -> 1
      [] label = UMERENNO_OTRITSATELNYJ -> 2
      [] label = NEJTRALNYJ -> 3
      [] label = UMERENNO_POLOZHITELNYJ -> 4
      [] label = SIGNAL_K_POKUPKE -> 5

\* the second call has the arguments of the first except for the text of at
\* most one indicator, whose vote is not lower than in the first call
OneVerdictNotLowered ==
    /\ pc = "recommended_again"
    /\ DOMAIN explanations = DOMAIN previous.explanations
    /\ news_sentiment = previous.news_sentiment
    /\ \E key \in Indicators :
          \A i \in DOMAIN explanations :
              LET before == Vote2(previous.explanations[i].interpretation)
                  after == Vote2(explanations[i].interpretation)
              IN  IF i = key THEN before <= after ELSE before = after

\* C22: with the other indicators and the news score fixed, changing one
\* indicator's verdict from adverse to neutral or from neutral to favourable
\* never lowers the score generate_trading_recommendation returns and never
\* moves the label to a lower rank; texts of the same verdict ('strong' or
\* plain) give the same score.
C22_MonotoneInVerdicts ==
    OneVerdictNotLowered =>
        /\ RatLE(previous.recommendation.score, recommendation.score)
        /\ Rank(previous.recommendation.recommendation)
              <= Rank(recommendation.recommendation)
        /\ (\A i \in DOMAIN explanations :
                Vote2(previous.explanations[i].interpretation)
                  = Vote2(explanations[i].interpretation))
              => recommendation.score = previous.recommendation.score

\* C22's case: the RSI verdict goes from adverse to neutral, the rest is the
\* same, and both the score and the rank of the label go up
C22_Witness ==
    /\ OneVerdictNotLowered
    /\ DOMAIN explanations = Indicators
    /\ previous.explanations["rsi"].interpretation \in AdverseTexts
    /\ explanations["rsi"].interpretation \in NeutralTexts
    /\ RatLT(previous.recommendation.score, recommendation.score)
    /\ Rank(previous.recommendation.recommendation)
          < Rank(recommendation.recommendation)

\* main has computed the recommendation from explanations that have a MACD entry
MacdScored ==
    /\ pc \in {"main_recommended", "displayed", "raised"}
    /\ "macd" \in DOMAIN explanations

\* the score of the recommendation if the MACD block adds half of vote2 and
\* the other blocks what their verdicts say
ScoreWithMacdVote2(vote2) ==
    LET others == SumVote2(explanations, DOMAIN explanations \ {"macd"})
                    + NewsVote2(news_sentiment)
        blocks == Cardinality(DOMAIN explanations) + 1
    IN  RatAdd(RatMul(Rat((others + vote2) * 100, 2 * blocks), Rat(8, 10)),
               RatMul(news_sentiment.news_score, Rat(2, 10)))

IsSignal(sig) == \E k \in 1..Len(recommendation.signals) : recommendation.signals[k] = sig

\* C23: MACD never counts as neutral.  Whatever the MACD and signal values of
\* the last row, the text of get_macd_interpretation is a bullish one, for
\* which generate_trading_recommendation adds 1, or a bearish one, for which
\* it adds 0; it never adds 0.5.  On a series of constant close (MACD =
\* signal = 0, diff = 0) the text is the plain bearish one and 0 is added.
C23_MacdNeverNeutral ==
    MacdScored =>
        LET text == explanations["macd"].interpretation
        IN  /\ text \in {MACD_STRONG_BULLISH, MACD_BULLISH,
                         MACD_STRONG_BEARISH, MACD_BEARISH}
            /\ text \in {MACD_STRONG_BULLISH, MACD_BULLISH} =>
                  /\ recommendation.score = ScoreWithMacdVote2(2)
                  /\ IsSignal("(green) MACD")
            /\ text \in {MACD_STRONG_BEARISH, MACD_BEARISH} =>
                  /\ recommendation.score = ScoreWithMacdVote2(0)
                  /\ IsSignal("(red) MACD")
            /\ recommendation.score # ScoreWithMacdVote2(1)
            /\ ConstantClose(df.rows) => text = MACD_BEARISH

\* C23's case: a series of constant close, scored with the bearish MACD text
C23_Witness ==
    /\ MacdScored
    /\ ConstantClose(df.rows)
    /\ explanations["macd"].interpretation = MACD_BEARISH
    /\ recommendation.score = ScoreWithMacdVote2(0)
    /\ IsSignal("(red) MACD")


\* less than RefreshPeriod seconds passed before each forced rerun of the chain
ChainIsFast == \A k \in 1..Len(chain) : chain[k].elapsed < RefreshPeriod

\* the run at its top was started by the st.rerun() of the refresh branch, less
\* than RefreshPeriod seconds after the clock was read there
AfterFastRefresh ==
    /\ pc = "top"
    /\ chain # << >>
    /\ chain[Len(chain)].cause = "refresh_rerun"
    /\ chain[Len(chain)].elapsed < RefreshPeriod

\* a run of main_page is under way
DashRunning == pc \in {"top", "loading", "stored", "shown"}

\* C24: on the dashboard page every chain of forced reruns ends.  A run that
\* takes the refresh branch sets last_update to the current time and clears
\* the cache; the run that follows it within less than 60 seconds does not
\* take the branch again and goes on to load the data; so a chain of forced
\* reruns with less than 60 seconds between the runs has at most two of them
\* (the one of the button, then the one of the refresh).  With auto-refresh
\* switched off, a run not started by the button neither changes last_update
\* nor clears the cache.
C24_ForcedRerunsEnd ==
    [][/\ (pc = "top" /\ pc' = "refresh_rerun") => (last_update' = now /\ cleared')
       /\ AfterFastRefresh => pc' = "loading"
       /\ ChainIsFast => Len(chain) <= 2
       /\ (DashRunning /\ ~auto_refresh /\ ~button) =>
              (last_update' = last_update /\ ~cleared /\ ~cleared')]_vars

\* C24's case: the button was pressed, the run it forced took the refresh
\* branch, and the run after that one, less than 60 seconds later, goes on to
\* load the data with last_update at the time of the refresh
C24_Witness ==
    /\ pc = "loading"
    /\ auto_refresh
    /\ Len(chain) = 2
    /\ chain[1].cause = "button_rerun"
    /\ chain[2].cause = "refresh_rerun"
    /\ ChainIsFast
    /\ last_update = now - chain[2].elapsed


\* main_page has stored the records of the run
RecordsStored == pc \in {"stored", "shown", "done", "button_rerun"}
\* ... and displayed them
RecordsShown == pc \in {"shown", "done", "button_rerun"}

\* C25: get_gateio_data always returns a record with the symbol asked for and
\* an 'available' flag.  The flag is True exactly for a response of status 200
\* whose list has a ticker with every numeric field a numeral; for any other
\* response (request exception, other status, no list or an empty one, a
\* field missing or not a numeral) the record is the placeholder: not
\* available, its price and volume fields 0.  main_page stores a record for
\* every symbol of CRYPTO_PAIRS and then shows the metrics exactly for the
\* symbols whose record is available.
C25_TickerRecords ==
    RecordsStored =>
        /\ DOMAIN crypto_data = Symbols
        /\ \A s \in Symbols :
              LET record == crypto_data[s]
              IN  /\ record.symbol = s
                  /\ record.available \in BOOLEAN
                  /\ record.available <=> response.ticker[s] \in GoodTickerResponses
                  /\ record.available =>
                        /\ record.last \in {RatInt(1), RatInt(BasePrice)}
                        /\ record.change_percentage = Rat(-3, 2)
                  /\ ~record.available =>
                        /\ record.last = RatInt(0)
                        /\ record.change_percentage = RatInt(0)
                        /\ record.high_24h = RatInt(0)
                        /\ record.low_24h = RatInt(0)
                        /\ record.quote_volume = RatInt(0)
                  /\ RecordsShown =>
                        (shown[s] \in {"metrics and chart", "metrics and approximate chart"}
                            <=> record.available)

\* C25's case: one symbol has a ticker with a field that is not a numeral and
\* gets the error message, the others have their metrics shown
C25_Witness ==
    /\ RecordsShown
    /\ \E s \in Symbols :
          /\ response.ticker[s] = Response(200, JsonList(<< BadTicker("high_24h") >>))
          /\ ~crypto_data[s].available
          /\ shown[s] = "not available"
          /\ \A other \in Symbols \ {s} :
                /\ crypto_data[other].available
                /\ shown[other] = "metrics and chart"


\* analyze_news_sentiment has been called on news_items
Analyzed == pc = "analyzed"

\* C26: for every list of news items, whatever their sentiments,
\* analyze_news_sentiment returns 'total' equal to the number of items, with
\* positive + neutral + negative <= total and news_score = 100 * (positive -
\* negative) / total within [-100, 100]; for the empty list all counts and
\* news_score are 0.
C26_NewsCounts ==
    Analyzed =>
        LET r == news_sentiment
            n == Len(news_items)
        IN  /\ r.total = n
            /\ r.positive + r.neutral + r.negative <= r.total
            /\ n > 0 => r.news_score = Rat(100 * (r.positive - r.negative), n)
            /\ RatLE(RatInt(-100), r.news_score) /\ RatLE(r.news_score, RatInt(100))
            /\ n = 0 => /\ r.positive = 0 /\ r.neutral = 0 /\ r.negative = 0
                        /\ r.news_score = RatInt(0)

=============================================================================
